---- MODULE Spec2Model ----
(***************************************************************************)
(* Overwatch Terminal: the fetch cycle (scripts/fetch-data.js), the        *)
(* approval step (scripts/apply-analysis.js) and the x402 payment agent    *)
(* (scripts/x402-agent.js), modelled as state machines over the files they *)
(* share.                                                                  *)
(*                                                                         *)
(* JSON values.  Numbers are integers; the JavaScript values null,         *)
(* undefined, NaN and Infinity are the codes below.            A string     *)
(* field holds a TLA+ string, with SNull for null.                         *)
(***************************************************************************)
EXTENDS Integers, Sequences, FiniteSets, TLC

Null == -9001
Undef == -9002
NaNv == -9003
Infv == -9004
SNull == "<null>"
SUndef == "<undefined>"

\* x == null in JavaScript: true of null and of undefined
Nullish(x) == x = Null \/ x = Undef

\* a ?? b
Coalesce(a, b) == IF Nullish(a) THEN b ELSE a

\* a ?? b for a string field
SCoalesce(a, b) == IF a = SNull THEN b ELSE a

\* Math.round(a / b) for a >= 0, b > 0
RoundDiv(a, b) == (2 * a + b) \div (2 * b)

\* JSON.stringify followed by JSON.parse, on a number: NaN and Infinity are
\* written as null, an undefined property is left out (and reads as undefined)
JsonNum(x) == IF x = NaNv \/ x = Infv THEN Null ELSE x

\* new Date().toISOString() of the running cycle, and of the cycle before it
Tnow == 1
Tprev == 0

(***************************************************************************)
(* config.js: KILL_SWITCH_TARGETS, in units of 10^9 USD (institutions for  *)
(* the permissioned DEX).                                                  *)
(***************************************************************************)
T_odl_volume == 25
T_rlusd_circulation == 5
T_xrp_etf_aum == 5
T_permissioned_dex == 5

(***************************************************************************)
(* dashboard-data.json.  keys is the set of top-level keys the document    *)
(* holds; a slot whose key is absent holds the value the code substitutes  *)
(* for it (fallback?.slot ?? default), so a read of an absent slot and the *)
(* code's default coincide.                                                *)
(***************************************************************************)
OutputKeys == {"updated", "auto_fetched", "xrp", "rlusd", "etf", "btc_etf", "eth_etf",
               "supply", "xrpl_metrics", "macro", "news", "manual", "kill_switches",
               "thesis_scores", "health_check", "bear_case", "probability",
               "last_analysis"}

AllKeys == OutputKeys \cup {"x402_agent"}

HealthKeys == {"xrp", "rlusd", "fear_greed", "usd_jpy", "news", "etf", "supply",
               "ibit", "etha", "xrpl_metrics", "fred_jpn_10y", "fred_brent",
               "fred_us_10y"}

ScoreKeys == {"regulatory", "institutional_custody", "etf_adoption",
              "xrpl_infrastructure", "stablecoin_adoption", "odl_volume",
              "japan_adoption", "macro_environment"}

KSKeys == {"odl_volume", "rlusd_circulation", "xrp_etf_aum",
           "permissioned_dex_adoption", "clarity_act"}

XrpDefault == [price |-> Null, change_24h |-> Null, volume_24h |-> Null,
               market_cap |-> Null]

RlusdDefault == [market_cap |-> Null, source |-> "manual"]

FearGreedDefault == [value |-> Null, label |-> SNull]

\* the etf fallback literal has no pct_supply, circ_supply or num_funds; funds
\* is the length of the funds array
EtfDefault == [last_fetched |-> Null, source |-> "none", total_aum |-> Null,
               total_xrp_locked |-> Null, funds |-> 0, pct_supply |-> Undef,
               circ_supply |-> Undef, num_funds |-> Undef]

IsharesDefault(label) ==
    [last_fetched |-> Null, source |-> "none", ticker |-> label,
     as_of_date |-> Null, total_aum |-> Null, shares_outstanding |-> Null,
     nav_per_share |-> Null, daily_flow |-> Null, weekly_net_flow |-> Null,
     daily_flow_history |-> <<>>]

\* total_supply in units of 10^9 XRP; defi_total, corp_treasuries, amm_locked
\* and xrp_burned follow the pattern of escrow and exchanges
SupplyDefault == [last_fetched |-> Null, source |-> "none", total_supply |-> 100,
                  circ_supply |-> Null, escrow |-> Null, exchanges |-> Null]

XrplDefault == [last_fetched |-> Null, source |-> "none",
                dex_volume_24h_usd |-> Null, dex_volume_24h_xrp |-> Null,
                dex_exchanges_24h |-> Null, dex_takers_24h |-> Null,
                avg_tx_per_ledger |-> Null, fee_burn_per_ledger_xrp |-> Null,
                current_ledger |-> Null]

\* headlines is the identity of the headline list, 0 the empty list
NewsDefault == [last_fetched |-> Tnow, source |-> "none", headlines |-> 0]

MacroAbsent == [usd_jpy |-> Undef, jpn_10y |-> Undef, us_10y_yield |-> Undef,
                brent_crude |-> Undef, fear_greed |-> FearGreedDefault]

ManualAbsent == [odl_volume_annualized |-> Undef, xrp_etf_aum |-> Undef,
                 rlusd_circulation |-> Undef,
                 permissioned_dex_institutions |-> Undef,
                 clarity_act_status |-> SNull, last_manual_update |-> Undef]

\* the property name a key map gives for a label that Object.prototype
\* holds: SCORE_KEY_MAP['constructor'] is the function Object, and a function
\* used as a property name is its source text
ObjectKey == "function Object() { [native code] }"

\* the literal of main() for a state without thesis_scores
ThesisDefault ==
    [k \in ScoreKeys \cup {ObjectKey} |->
        CASE k = "regulatory" -> "CONFIRMED"
          [] k = "institutional_custody" -> "STRONG"
          [] k = "etf_adoption" -> "CONFIRMED"
          [] k = "xrpl_infrastructure" -> "ACCELERATING"
          [] k = "stablecoin_adoption" -> "GROWING"
          [] k = "odl_volume" -> "NEEDS_DATA"
          [] k = "japan_adoption" -> "FAVORABLE"
          [] k = "macro_environment" -> "STRESSED"
          [] OTHER -> SUndef]

\* {}: no category has an entry
ThesisAbsent == [k \in ScoreKeys \cup {ObjectKey} |-> SUndef]

KSEntryAbsent == [current |-> Undef, status |-> SNull, pct_complete |-> Undef,
                  analysis_note |-> Undef]

KSAbsent == [k \in KSKeys |-> KSEntryAbsent]

NoHealth == [k \in HealthKeys |-> "none"]

\* last_analysis: null is the record of nulls
AnalysisNull == [timestamp |-> Null, applied_at |-> Null, changes_applied |-> Null]

AgentBlockAbsent == [payments_sent |-> Undef, session_drops_spent |-> Undef,
                     transactions |-> <<>>]

\* the object loadExisting() returns for a missing file: {}
EmptyDoc ==
    [exists |-> FALSE, keys |-> {}, updated |-> Undef,
     xrp |-> XrpDefault, rlusd |-> RlusdDefault, etf |-> EtfDefault,
     btc_etf |-> IsharesDefault("IBIT"), eth_etf |-> IsharesDefault("ETHA"),
     supply |-> SupplyDefault, xrpl_metrics |-> XrplDefault,
     macro |-> MacroAbsent, news |-> NewsDefault, manual |-> ManualAbsent,
     kill_switches |-> KSAbsent, thesis_scores |-> ThesisAbsent,
     health_check |-> NoHealth, bear_case |-> Undef, probability |-> Undef,
     last_analysis |-> AnalysisNull, x402_agent |-> AgentBlockAbsent]

Has(doc, k) == k \in doc.keys

(***************************************************************************)
(* Upstream calls.  One attempt of an HTTP call ends in "ok" with a body,  *)
(* in "err" (network error, timeout, non-2xx other than 403, invalid JSON) *)
(* or in "403" (an error whose message holds 403).                         *)
(***************************************************************************)
IsErr(a) == a.kind # "ok"

\* withRetry(fn, label, retries): the first attempt that does not throw, or
\* the error of the last attempt; calls counts the invocations of fn
RECURSIVE RetryFrom(_, _, _)
RetryFrom(as, i, retries) ==
    IF ~IsErr(as[i]) THEN [ok |-> TRUE, att |-> as[i], calls |-> i]
    ELSE IF i > retries THEN [ok |-> FALSE, att |-> as[i], calls |-> i]
    ELSE RetryFrom(as, i + 1, retries)

DefaultRetries == 1

withRetry(as) == RetryFrom(as, 1, DefaultRetries)

Err == [kind |-> "err", body |-> <<>>]
Err403 == [kind |-> "403", body |-> <<>>]
Ok(b) == [kind |-> "ok", body |-> b]

\* the sequences of attempts one withRetry call can see, and its outcomes
Tries(atts) == [1..(DefaultRetries + 1) -> atts]

Calls(atts) == {withRetry(as) : as \in Tries(atts)}

\* an adapter's answer: the record (or number) it returns, the status it
\* marks in fetchHealth, whether its upstream calls all failed ("failed"),
\* one of them answered ("ok"), or none was made ("none"), and whether the
\* record is the one built from a response (fresh) or the fallback
Ans(v, h, u, f) == [val |-> v, health |-> h, up |-> u, fresh |-> f]

\* oks: for each upstream call the adapter made, whether it answered
UpOf(oks) ==
    IF oks = {} THEN "none" ELSE IF TRUE \in oks THEN "ok" ELSE "failed"

(***************************************************************************)
(* fetchXRP                                                                *)
(***************************************************************************)
fetchXRP(fallback, r) ==
    LET b == r.att.body
    IN  IF r.ok /\ b.ripple
        THEN Ans([price |-> Coalesce(b.usd, Null),
                  change_24h |-> Coalesce(b.usd_24h_change, Null),
                  volume_24h |-> Coalesce(b.usd_24h_vol, Null),
                  market_cap |-> Coalesce(b.usd_market_cap, Null)], "ok", "ok", TRUE)
        ELSE Ans(IF Has(fallback, "xrp") THEN fallback.xrp ELSE XrpDefault,
                 "fail", UpOf({r.ok}), FALSE)

(***************************************************************************)
(* fetchRLUSD: the direct id, then the search and the price of the id      *)
(* found                                                                   *)
(***************************************************************************)
fetchRLUSD(fallback, r1, r2, r3) ==
        IF r1.ok /\ r1.att.body.entry
        THEN Ans([market_cap |-> Coalesce(r1.att.body.usd_market_cap, Null),
                  source |-> "coingecko"], "ok", "ok", TRUE)
        ELSE IF r2.ok /\ r2.att.body.found /\ r3.ok
        THEN Ans([market_cap |->
                     IF r3.att.body.entry
                     THEN Coalesce(r3.att.body.usd_market_cap, Null) ELSE Null,
                  source |-> "coingecko"], "ok", "ok", TRUE)
        ELSE Ans(IF Has(fallback, "rlusd") THEN fallback.rlusd ELSE RlusdDefault,
                 "fail",
                 UpOf({r1.ok, r2.ok}
                      \cup (IF r2.ok /\ r2.att.body.found THEN {r3.ok} ELSE {})), FALSE)

(***************************************************************************)
(* fetchFearGreed                                                          *)
(***************************************************************************)
fetchFearGreed(fallback, r) ==
    LET b == r.att.body
    IN  IF r.ok /\ b.entry
        THEN Ans([value |-> b.value, label |-> b.label], "ok", "ok", TRUE)
        ELSE Ans(fallback.macro.fear_greed, "fail", UpOf({r.ok}), FALSE)

(***************************************************************************)
(* fetchUSDJPY: Alpha Vantage when its key is set, then Frankfurter        *)
(***************************************************************************)
\* !rate || isNaN(rate)
BadRate(rate) == rate = 0 \/ rate = NaNv \/ Nullish(rate)

fetchUSDJPY(fallback, avKey, r1, r2) ==
        IF avKey /\ r1.ok /\ r1.att.body.series /\ ~BadRate(r1.att.body.rate)
        THEN Ans(r1.att.body.rate, "ok", "ok", TRUE)
        ELSE IF r2.ok /\ ~BadRate(r2.att.body.rate)
        THEN Ans(r2.att.body.rate, "ok", "ok", TRUE)
        ELSE Ans(Coalesce(fallback.macro.usd_jpy, Null), "fail",
                 UpOf((IF avKey THEN {r1.ok} ELSE {}) \cup {r2.ok}), FALSE)

(***************************************************************************)
(* fetchNews: CryptoPanic when its key is set, then NewsData.io when its   *)
(* key is set                                                              *)
(***************************************************************************)
fetchNews(fallback, cpKey, ndKey, r1, r2) ==
    LET cached == IF Has(fallback, "news") THEN fallback.news ELSE NewsDefault
    IN  IF cpKey /\ r1.ok /\ r1.att.body.results > 0
        THEN Ans([last_fetched |-> Tnow, source |-> "cryptopanic",
                  headlines |-> r1.att.body.headlines], "ok", "ok", TRUE)
        ELSE IF ndKey
        THEN IF r2.ok /\ r2.att.body.results > 0
             THEN Ans([last_fetched |-> Tnow, source |-> "newsdata",
                       headlines |-> r2.att.body.headlines], "ok", "ok", TRUE)
             ELSE Ans(cached, "fail",
                      UpOf((IF cpKey THEN {r1.ok} ELSE {}) \cup {r2.ok}), FALSE)
        ELSE Ans(cached, "skip", UpOf(IF cpKey THEN {r1.ok} ELSE {}), FALSE)

(***************************************************************************)
(* fetchETF and fetchXRPRadar (xrp-insights.com).  shape is the test of    *)
(* the response shape; the flow sums, which no other step reads, are left  *)
(* out of the record.                                                      *)
(***************************************************************************)
fetchETF(fallback, r) ==
    LET b == r.att.body
    IN  IF r.ok /\ b.shape
        THEN Ans([last_fetched |-> Tnow, source |-> "xrp-insights",
                  total_aum |-> Coalesce(b.totalAUM, Null),
                  total_xrp_locked |-> Coalesce(b.totalXRP, Null),
                  funds |-> b.nfunds, pct_supply |-> Undef,
                  circ_supply |-> Undef, num_funds |-> Undef], "ok", "ok", TRUE)
        ELSE Ans(IF Has(fallback, "etf") THEN fallback.etf ELSE EtfDefault,
                 "fail", UpOf({r.ok}), FALSE)

fetchXRPRadar(fallback, r) ==
    LET b == r.att.body
    IN  IF r.ok /\ b.shape
        THEN Ans([last_fetched |-> Tnow, source |-> "xrp-insights",
                  total_supply |-> Coalesce(b.totalSupply, 100),
                  circ_supply |-> Coalesce(b.circulatingSupply, Null),
                  escrow |-> Coalesce(b.escrow, Null),
                  exchanges |-> Coalesce(b.exchanges, Null)], "ok", "ok", TRUE)
        ELSE Ans(IF Has(fallback, "supply") THEN fallback.supply ELSE SupplyDefault,
                 "fail", UpOf({r.ok}), FALSE)

(***************************************************************************)
(* fetchISharesETF (IBIT and ETHA).  Floating-point arithmetic: a / 0 is   *)
(* Infinity (NaN for 0 / 0), and a non-finite operand makes the result     *)
(* non-finite; the inputs are chosen so that the finite quotients are      *)
(* exact.                                                                  *)
(***************************************************************************)
Finite(x) == x # NaNv /\ x # Infv

JsDiv(a, b) ==
    IF b = 0 THEN (IF a = 0 THEN NaNv ELSE Infv) ELSE a \div b

JsMul(a, b) ==
    IF a = NaNv \/ b = NaNv THEN NaNv
    ELSE IF a = Infv \/ b = Infv
         THEN (IF a = 0 \/ b = 0 THEN NaNv ELSE Infv)
    ELSE a * b

\* s + d.flow, where a null flow (a non-finite flow read back from the file)
\* adds 0
JsAdd(a, b) ==
    IF a = NaNv \/ b = NaNv THEN NaNv
    ELSE IF a = Infv \/ b = Infv THEN Infv
    ELSE (IF a = Null THEN 0 ELSE a) + (IF b = Null THEN 0 ELSE b)

RECURSIVE SumFlows(_)
SumFlows(h) == IF h = <<>> THEN 0 ELSE JsAdd(SumFlows(Tail(h)), Head(h).flow)

\* h.slice(-n)
LastN(h, n) == IF Len(h) <= n THEN h ELSE SubSeq(h, Len(h) - n + 1, Len(h))

HistoryCap == 14

\* the as-of date of the CSV header that new Date() cannot parse
BadDate == -7

fetchISharesETF(label, fallbackKey, fallback, r) ==
    LET b == r.att.body
        healthKey == IF label = "IBIT" THEN "ibit" ELSE "etha"
        prev == IF Has(fallback, fallbackKey) THEN fallback[fallbackKey]
                ELSE IsharesDefault(label)
        as_of_date == IF b.asof = Undef THEN Null ELSE b.asof
        nav_per_share == JsDiv(b.aum, b.shares)
        advances == /\ as_of_date # Null
                    /\ as_of_date # prev.as_of_date
                    /\ ~Nullish(prev.shares_outstanding)
        flow == JsMul(b.shares - prev.shares_outstanding, nav_per_share)
        pushed == Append(prev.daily_flow_history,
                         [date |-> as_of_date, flow |-> flow])
        history == IF advances
                   THEN (IF Len(pushed) > HistoryCap THEN Tail(pushed) ELSE pushed)
                   ELSE prev.daily_flow_history
        daily_flow == IF advances THEN flow
                      ELSE IF Len(history) > 0 THEN history[Len(history)].flow
                      ELSE Null
        last5 == LastN(history, 5)
    IN  IF r.ok /\ b.shares # Undef /\ b.aum # Undef /\ b.asof # BadDate
        THEN [val |-> [last_fetched |-> Tnow,
                       source |-> IF label = "IBIT" THEN "ishares-ibit"
                                  ELSE "ishares-etha",
                       ticker |-> label, as_of_date |-> as_of_date,
                       total_aum |-> b.aum, shares_outstanding |-> b.shares,
                       nav_per_share |-> nav_per_share,
                       daily_flow |-> daily_flow,
                       weekly_net_flow |-> IF Len(last5) >= 1 THEN SumFlows(last5)
                                           ELSE Null,
                       daily_flow_history |-> history],
              health |-> "ok", up |-> "ok", fresh |-> TRUE, key |-> healthKey]
        ELSE [val |-> prev, health |-> "fail", up |-> UpOf({r.ok}),
              fresh |-> FALSE, key |-> healthKey]

fetchBTCETF(fallback, r) == fetchISharesETF("IBIT", "btc_etf", fallback, r)

fetchETHETF(fallback, r) == fetchISharesETF("ETHA", "eth_etf", fallback, r)

(***************************************************************************)
(* fetchXRPLMetrics: XRPScan (tokens and ledger, Promise.all), then        *)
(* OnTheDex when the XRPScan error holds 403.  first is the call whose     *)
(* rejection Promise.all reports when both reject.                         *)
(***************************************************************************)
\* x || null
OrNull(x) == IF x = 0 \/ x = NaNv \/ Nullish(x) THEN Null ELSE x

\* Amounts of XRP are counted in ten-thousandths, the unit toFixed(4) rounds
\* to: 100 drops. No input used here lies halfway between two of them.
\* fetchXRPLMetrics, fee burn: destroyed is destroyed_coins of each ledger of
\* ledgerData.ledgers (which is not empty), undefined where a ledger has none.
\* totalBurnedDrops starts at 0 and each ledger's count is subtracted from it.
RECURSIVE totalBurnedDrops(_)
totalBurnedDrops(destroyed) ==
    IF destroyed = <<>> THEN 0
    ELSE totalBurnedDrops(SubSeq(destroyed, 1, Len(destroyed) - 1))
             - Coalesce(destroyed[Len(destroyed)], 0)

\* parseFloat((totalBurnedDrops / 1_000_000 / ledgers.length).toFixed(4)):
\* toFixed rounds the magnitude, -0 is written to the file as 0
feeBurn(destroyed) ==
    LET total == totalBurnedDrops(destroyed)
        n == 100 * Len(destroyed)
    IN  IF total >= 0 THEN RoundDiv(total, n) ELSE 0 - RoundDiv(0 - total, n)

fetchXRPLMetrics(fallback, r1, r2, first, r3) ==
    LET t == r1.att.body
        l == r2.att.body
        o == r3.att.body
        e == IF ~r1.ok /\ ~r2.ok THEN (IF first = 1 THEN r1.att ELSE r2.att)
             ELSE IF ~r1.ok THEN r1.att ELSE r2.att
        cached == IF Has(fallback, "xrpl_metrics") THEN fallback.xrpl_metrics
                  ELSE XrplDefault
    IN  IF r1.ok /\ r2.ok
        THEN Ans([last_fetched |-> Tnow, source |-> "xrpscan",
                  dex_volume_24h_usd |-> IF t.isArray THEN t.volume ELSE Null,
                  dex_volume_24h_xrp |-> Null,
                  dex_exchanges_24h |-> IF t.isArray THEN t.exchanges ELSE Null,
                  dex_takers_24h |-> IF t.isArray THEN t.takers ELSE Null,
                  avg_tx_per_ledger |-> IF l.hasLedgers THEN l.avg_tx ELSE Null,
                  fee_burn_per_ledger_xrp |->
                      IF l.hasLedgers THEN feeBurn(l.destroyed) ELSE Null,
                  current_ledger |-> IF l.hasLedgers THEN l.current ELSE Null],
                 "ok", "ok", TRUE)
        ELSE IF e.kind = "403"
        THEN IF r3.ok /\ o.pairs > 0
             THEN Ans([last_fetched |-> Tnow, source |-> "onthedex",
                       dex_volume_24h_usd |-> OrNull(o.volume),
                       dex_volume_24h_xrp |-> Null,
                       dex_exchanges_24h |-> OrNull(o.trades),
                       dex_takers_24h |-> Null, avg_tx_per_ledger |-> Null,
                       fee_burn_per_ledger_xrp |-> Null, current_ledger |-> Null],
                      "ok", "ok", TRUE)
             ELSE Ans(cached, "fail", UpOf({r1.ok, r2.ok, r3.ok}), FALSE)
        ELSE Ans(cached, "fail", UpOf({r1.ok, r2.ok}), FALSE)

(***************************************************************************)
(* fetchFRED and fetchJPN10Y (Twelve Data when its key is set, then FRED)  *)
(***************************************************************************)
\* fetchFRED marking its slot 'ok' where it passes the series over
fetchFREDSkipOk(fallbackValue, key, r) ==
    LET b == r.att.body
    IN  IF ~key THEN Ans(Coalesce(fallbackValue, Null), "ok", "none", FALSE)
        ELSE IF r.ok /\ b.obs THEN Ans(b.value, "ok", "ok", TRUE)
        ELSE Ans(Coalesce(fallbackValue, Null), "fail", UpOf({r.ok}), FALSE)

fetchFRED(fallbackValue, key, r) ==
    LET b == r.att.body
    IN  IF ~key THEN Ans(Coalesce(fallbackValue, Null), "skip", "none", FALSE)
        ELSE IF r.ok /\ b.obs THEN Ans(b.value, "ok", "ok", TRUE)
        ELSE Ans(Coalesce(fallbackValue, Null), "fail", UpOf({r.ok}), FALSE)

fetchJPN10Y(fallbackValue, tdKey, r, key, rFRED) ==
    LET b == r.att.body
        f == fetchFRED(fallbackValue, key, rFRED)
    IN  IF tdKey /\ r.ok /\ b.values > 0 /\ b.close # NaNv
        THEN Ans(b.close, "ok", "ok", TRUE)
        ELSE Ans(f.val, f.health,
                 UpOf((IF tdKey THEN {r.ok} ELSE {})
                      \cup (IF key THEN {rFRED.ok} ELSE {})), f.fresh)

(***************************************************************************)
(* Kill switches                                                           *)
(***************************************************************************)
pct(current, target) ==
    IF Nullish(current) \/ Nullish(target) \/ target = 0 THEN Null
    ELSE RoundDiv(current * 100, target)

KSStatus(current, target) ==
    IF Nullish(current) THEN "NEEDS_DATA"
    ELSE IF current >= target THEN "HIT" ELSE "TRACKING"

\* clarity?.toLowerCase().includes('passed'), over the statuses ClarityValues
IncludesPassed(str) == str \in {"Passed", "PASSED House", "passed"}

\* current of clarity_act is the constant string 'pending', coded 0
buildKillSwitches(manual, rlusd, etf) ==
    LET odl == Coalesce(manual.odl_volume_annualized, Null)
        rlusdC == Coalesce(rlusd.market_cap,
                           Coalesce(manual.rlusd_circulation, Null))
        etfAum == Coalesce(etf.total_aum, Coalesce(manual.xrp_etf_aum, Null))
        dex == Coalesce(manual.permissioned_dex_institutions, Null)
        clarity == SCoalesce(manual.clarity_act_status, "pending")
    IN  [k \in KSKeys |->
           CASE k = "odl_volume" ->
                  [current |-> odl, status |-> KSStatus(odl, T_odl_volume),
                   pct_complete |-> pct(odl, T_odl_volume),
                   analysis_note |-> Undef]
             [] k = "rlusd_circulation" ->
                  [current |-> rlusdC,
                   status |-> KSStatus(rlusdC, T_rlusd_circulation),
                   pct_complete |-> pct(rlusdC, T_rlusd_circulation),
                   analysis_note |-> Undef]
             [] k = "xrp_etf_aum" ->
                  [current |-> etfAum,
                   status |-> KSStatus(etfAum, T_xrp_etf_aum),
                   pct_complete |-> pct(etfAum, T_xrp_etf_aum),
                   analysis_note |-> Undef]
             [] k = "permissioned_dex_adoption" ->
                  [current |-> dex,
                   status |-> KSStatus(dex, T_permissioned_dex),
                   pct_complete |-> Undef, analysis_note |-> Undef]
             [] OTHER ->
                  [current |-> 0,
                   status |-> IF IncludesPassed(clarity) THEN "HIT" ELSE "PENDING",
                   pct_complete |-> Undef, analysis_note |-> Undef]]

(***************************************************************************)
(* main(): the derived fields computed after Promise.all                   *)
(***************************************************************************)
\* xrpl_metrics.dex_volume_24h_xrp
EnrichXrpl(xrpl, xrp) ==
    IF ~Nullish(xrpl.dex_volume_24h_usd) /\ ~Nullish(xrp.price) /\ xrp.price > 0
    THEN [xrpl EXCEPT !.dex_volume_24h_xrp =
                          RoundDiv(xrpl.dex_volume_24h_usd, xrp.price)]
    ELSE xrpl

\* etf.pct_supply (in thousandths of a percent: toFixed(3)), etf.circ_supply
\* and etf.num_funds
EnrichEtf(etf, xrp) ==
    LET e == IF /\ ~Nullish(etf.total_xrp_locked)
                /\ ~Nullish(xrp.market_cap)
                /\ ~Nullish(xrp.price) /\ xrp.price > 0
             THEN [etf EXCEPT
                     !.pct_supply =
                        IF xrp.market_cap = 0
                        THEN (IF etf.total_xrp_locked = 0 THEN NaNv ELSE Infv)
                        ELSE RoundDiv(etf.total_xrp_locked * xrp.price * 100000,
                                      xrp.market_cap),
                     !.circ_supply = RoundDiv(xrp.market_cap, xrp.price)]
             ELSE etf
    IN  [e EXCEPT !.num_funds = Coalesce(etf.funds, 0)]

\* a merge that takes the ETF assets from the live value
MergeManualLiveAum(ex) ==
    [odl_volume_annualized |-> Coalesce(ex.manual.odl_volume_annualized, Null),
     xrp_etf_aum |-> Coalesce(ex.manual.xrp_etf_aum, Null),
     rlusd_circulation |-> Null,
     permissioned_dex_institutions |->
         Coalesce(ex.manual.permissioned_dex_institutions, Null),
     clarity_act_status |-> SCoalesce(ex.manual.clarity_act_status, "Pending"),
     last_manual_update |-> Coalesce(ex.manual.last_manual_update, Null)]

\* the manual block of main()
MergeManual(ex) ==
    [odl_volume_annualized |-> Coalesce(ex.manual.odl_volume_annualized, Null),
     xrp_etf_aum |-> Coalesce(ex.manual.xrp_etf_aum, Null),
     rlusd_circulation |-> Coalesce(ex.manual.rlusd_circulation, Null),
     permissioned_dex_institutions |->
         Coalesce(ex.manual.permissioned_dex_institutions, Null),
     clarity_act_status |-> SCoalesce(ex.manual.clarity_act_status, "Pending"),
     last_manual_update |-> Coalesce(ex.manual.last_manual_update, Null)]

\* a merge that writes the literal of main() every cycle
MergeThesisLiteral(ex) == ThesisDefault

\* existing?.thesis_scores ?? { ... }
MergeThesis(ex) ==
    IF Has(ex, "thesis_scores") THEN ex.thesis_scores ELSE ThesisDefault

\* JSON.stringify / JSON.parse of an iShares record
JsonIshares(e) ==
    [e EXCEPT !.nav_per_share = JsonNum(@), !.daily_flow = JsonNum(@),
              !.weekly_net_flow = JsonNum(@),
              !.daily_flow_history =
                  [i \in 1..Len(@) |-> [@[i] EXCEPT !.flow = JsonNum(@)]]]

\* the output object of main(), as JSON.stringify writes it and the next
\* reader parses it
\* a cycle that leaves the file as it found it
OutputSkipped(ex, r, health) == ex

Output(ex, r, health) ==
    LET manual == MergeManual(ex)
    IN  [exists |-> TRUE, keys |-> OutputKeys, updated |-> Tnow,
         xrp |-> r.xrp, rlusd |-> r.rlusd,
         etf |-> [r.etf EXCEPT !.pct_supply = JsonNum(@)],
         btc_etf |-> JsonIshares(r.btc_etf),
         eth_etf |-> JsonIshares(r.eth_etf),
         supply |-> r.supply, xrpl_metrics |-> r.xrpl_metrics,
         macro |-> [usd_jpy |-> JsonNum(r.usdJpy), jpn_10y |-> JsonNum(r.jpn10y),
                    us_10y_yield |-> JsonNum(r.us10y),
                    brent_crude |-> JsonNum(r.brent),
                    fear_greed |-> r.fearGreed],
         news |-> r.news, manual |-> manual,
         kill_switches |-> buildKillSwitches(manual, r.rlusd, r.etf),
         thesis_scores |-> MergeThesis(ex),
         health_check |-> health,
         bear_case |-> Coalesce(ex.bear_case, Null),
         probability |-> Coalesce(ex.probability, Null),
         last_analysis |-> ex.last_analysis,
         x402_agent |-> AgentBlockAbsent]

\* a filter that counts every source that is not 'ok'
failedSourcesNotOk(health) == {k \in HealthKeys : health[k] \in {"fail", "skip"}}

\* the sources of the health map whose status is 'fail'
failedSources(health) == {k \in HealthKeys : health[k] = "fail"}

AlertThreshold == 3

(***************************************************************************)
(* apply-analysis.js.  Strings that the code inspects character by         *)
(* character (event titles) are sequences of one-character strings.        *)
(***************************************************************************)
Chars == {"U", "S", "u", "s", ".", "'", " ", "\\"}

\* String.prototype.toLowerCase, per character
Lower(c) == CASE c = "U" -> "u" [] c = "S" -> "s" [] OTHER -> c

\* [a-z0-9]
IsAlnum(c) == c \in {"u", "s"}

\* replace(/[^a-z0-9]+/g, ' '): every run of other characters becomes one
\* space
RECURSIVE Collapse(_)
Collapse(str) ==
    IF str = <<>> THEN <<>>
    ELSE IF IsAlnum(Head(str)) THEN <<Head(str)>> \o Collapse(Tail(str))
    ELSE IF Len(str) > 1 /\ ~IsAlnum(str[2]) THEN Collapse(Tail(str))
    ELSE <<" ">> \o Collapse(Tail(str))

\* String.prototype.trim
RECURSIVE Trim(_)
Trim(str) ==
    IF str = <<>> THEN <<>>
    ELSE IF Head(str) = " " THEN Trim(Tail(str))
    ELSE IF str[Len(str)] = " " THEN Trim(SubSeq(str, 1, Len(str) - 1))
    ELSE str

KeyLength == 40

\* titleKey(title)
titleKey(title) ==
    LET lowered == [i \in 1..Len(title) |-> Lower(title[i])]
        key == Trim(Collapse(lowered))
    IN  IF Len(key) <= KeyLength THEN key ELSE SubSeq(key, 1, KeyLength)

\* esc of buildEventEntry: a backslash before every backslash and apostrophe
RECURSIVE esc(_)
esc(str) ==
    IF str = <<>> THEN <<>>
    ELSE IF Head(str) \in {"\\", "'"} THEN <<"\\", Head(str)>> \o esc(Tail(str))
    ELSE <<Head(str)>> \o esc(Tail(str))

\* the group ([^']+) of titleRegex over the text written between the quotes
RECURSIVE UpToQuote(_)
UpToQuote(text) ==
    IF text = <<>> \/ Head(text) = "'" THEN <<>>
    ELSE <<Head(text)>> \o UpToQuote(Tail(text))

\* the keys insertEventsIntoHTML collects from the titles of index.html
existingTitles(events) ==
    {titleKey(UpToQuote(events[i].text)) :
        i \in {j \in 1..Len(events) : UpToQuote(events[j].text) # <<>>}}

\* buildEventEntry: the entry as written (title is the title it was built from)
buildEventEntry(title) == [title |-> title, text |-> esc(title)]

\* the loop of insertEventsIntoHTML: the drafts kept, in order, and the keys
\* seen
RECURSIVE InsertLoop(_, _, _, _)
InsertLoop(draft, titles, hist, kept) ==
    IF draft = <<>> THEN [newEntries |-> kept, history |-> hist]
    ELSE LET t == Head(draft)
             key == titleKey(t)
         IN  IF t = <<>> \/ key \in titles \/ key \in hist
             THEN InsertLoop(Tail(draft), titles, hist, kept)
             ELSE InsertLoop(Tail(draft), titles \cup {key}, hist \cup {key},
                             Append(kept, t))

\* SCORE_KEY_MAP and KS_KEY_MAP are object literals: the lookup gives the
\* value of the label, for "constructor" the member of Object.prototype, and
\* SUndef for a label that neither holds
SCORE_KEY_MAP(category) ==
    CASE category \in {"Regulatory Clarity", "Regulatory"} -> "regulatory"
      [] category = "Institutional Custody" -> "institutional_custody"
      [] category = "ETF Adoption" -> "etf_adoption"
      [] category = "XRPL Infrastructure" -> "xrpl_infrastructure"
      [] category \in {"Stablecoin (RLUSD)", "Stablecoin Adoption", "RLUSD"} ->
             "stablecoin_adoption"
      [] category = "ODL Volume" -> "odl_volume"
      [] category = "Japan Adoption" -> "japan_adoption"
      [] category \in {"Macro Environment", "Macro"} -> "macro_environment"
      [] category = "constructor" -> ObjectKey
      [] OTHER -> SUndef

KS_KEY_MAP(name) ==
    CASE name = "ODL Volume" -> "odl_volume"
      [] name = "RLUSD Circulation" -> "rlusd_circulation"
      [] name = "Permissioned DEX" -> "permissioned_dex_adoption"
      [] name = "XRP ETF AUM" -> "xrp_etf_aum"
      [] name = "Japan Adoption" -> "japan_adoption"
      [] name = "Clarity Act" -> "clarity_act"
      [] name = "Announcement-to-Deployment" -> "announcement_to_deployment"
      [] name = "Token Velocity" -> "token_velocity"
      [] name = "Competitive Displacement" -> "competitive_displacement"
      [] name = "ODL Transparency" -> "odl_transparency"
      [] name = "constructor" -> ObjectKey
      [] OTHER -> SUndef

\* step 2 of main(): the scorecard loop over d = [doc, changes, entries]
RECURSIVE ApplyScorecard(_, _)
ApplyScorecard(updates, d) ==
    IF updates = <<>> THEN d
    ELSE LET update == Head(updates)
             key == SCORE_KEY_MAP(update.category)
         IN  IF update.recommended_status = update.previous_status
                \/ key = SUndef
             THEN ApplyScorecard(Tail(updates), d)
             ELSE ApplyScorecard(Tail(updates),
                    [doc |-> [d.doc EXCEPT
                                !.keys = @ \cup {"thesis_scores"},
                                !.thesis_scores[key] = update.recommended_status],
                     changes |-> d.changes + 1,
                     entries |-> d.entries + 1])

\* step 3 of main(): the kill switch loop
RECURSIVE ApplyKillSwitches(_, _)
ApplyKillSwitches(updates, d) ==
    IF updates = <<>> THEN d
    ELSE LET update == Head(updates)
             key == KS_KEY_MAP(update.name)
         IN  IF \/ update.recommended_status = update.previous_status
                \/ key = SUndef
                \/ key \notin KSKeys
                \/ ~Has(d.doc, "kill_switches")
             THEN ApplyKillSwitches(Tail(updates),
                    IF update.recommended_status # update.previous_status
                       /\ key # SUndef
                    THEN [d EXCEPT !.doc.keys = @ \cup {"kill_switches"}]
                    ELSE d)
             ELSE ApplyKillSwitches(Tail(updates),
                    [doc |-> [d.doc EXCEPT
                                !.kill_switches[key].status =
                                    update.recommended_status,
                                !.kill_switches[key].analysis_note =
                                    IF update.reasoning # 0 THEN update.reasoning
                                    ELSE @],
                     changes |-> d.changes + 1,
                     entries |-> d.entries + 1])

\* steps 4 and 5 of main(): the probability model and the stamp
ApplyProbability(analysis, d) ==
    IF analysis.prob.present /\ analysis.prob.reasoning # 0
    THEN [doc |-> [d.doc EXCEPT !.keys = @ \cup {"probability"},
                                !.probability = analysis.prob.value],
          changes |-> d.changes + 1, entries |-> d.entries + 1]
    ELSE d

StampAnalysis(analysis, d) ==
    [d EXCEPT !.doc.keys = @ \cup {"last_analysis"},
              !.doc.last_analysis =
                  [timestamp |-> analysis.timestamp, applied_at |-> Tnow,
                   changes_applied |-> d.changes]]

\* replaceParaById over the paragraph thesisPulseText: 0 is no text
replaceParaById(existingText, newText) ==
    IF newText = 0 \/ existingText = newText
    THEN [text |-> existingText, changed |-> FALSE]
    ELSE [text |-> newText, changed |-> TRUE]

(***************************************************************************)
(* The documents a cycle can find on disk: none (first run), and a         *)
(* document of a later cycle that the operator (manual), apply-analysis.js *)
(* (thesis_scores, probability, last_analysis) and x402-agent.js           *)
(* (x402_agent) have edited.                                               *)
(***************************************************************************)
DefaultRes ==
    [xrp |-> XrpDefault, rlusd |-> RlusdDefault, fearGreed |-> FearGreedDefault,
     usdJpy |-> Null, news |-> NewsDefault, etf |-> EtfDefault,
     supply |-> SupplyDefault, btc_etf |-> IsharesDefault("IBIT"),
     eth_etf |-> IsharesDefault("ETHA"), xrpl_metrics |-> XrplDefault,
     jpn10y |-> Null, brent |-> Null, us10y |-> Null]

PrevManual ==
    [odl_volume_annualized |-> 10, xrp_etf_aum |-> Null, rlusd_circulation |-> 2,
     permissioned_dex_institutions |-> Null, clarity_act_status |-> "Pending",
     last_manual_update |-> Tprev]

PrevFull ==
    [exists |-> TRUE, keys |-> AllKeys, updated |-> Tprev,
     xrp |-> [price |-> 1, change_24h |-> 1, volume_24h |-> 1, market_cap |-> 2],
     rlusd |-> [market_cap |-> 1, source |-> "coingecko"],
     etf |-> [last_fetched |-> Tprev, source |-> "xrp-insights", total_aum |-> 1,
              total_xrp_locked |-> 1, funds |-> 2, pct_supply |-> 50000,
              circ_supply |-> 2, num_funds |-> 2],
     btc_etf |-> [last_fetched |-> Tprev, source |-> "ishares-ibit",
                  ticker |-> "IBIT", as_of_date |-> 1, total_aum |-> 4,
                  shares_outstanding |-> 2, nav_per_share |-> 2,
                  daily_flow |-> Null, weekly_net_flow |-> Null,
                  daily_flow_history |-> <<>>],
     eth_etf |-> [last_fetched |-> Tprev, source |-> "ishares-etha",
                  ticker |-> "ETHA", as_of_date |-> 1, total_aum |-> 4,
                  shares_outstanding |-> 2, nav_per_share |-> 2,
                  daily_flow |-> Null, weekly_net_flow |-> Null,
                  daily_flow_history |-> <<>>],
     supply |-> [last_fetched |-> Tprev, source |-> "xrp-insights",
                 total_supply |-> 100, circ_supply |-> 60, escrow |-> 35,
                 exchanges |-> 10],
     xrpl_metrics |-> [last_fetched |-> Tprev, source |-> "xrpscan",
                       dex_volume_24h_usd |-> 4, dex_volume_24h_xrp |-> 4,
                       dex_exchanges_24h |-> 3, dex_takers_24h |-> 2,
                       avg_tx_per_ledger |-> 5, fee_burn_per_ledger_xrp |-> 1,
                       current_ledger |-> 7],
     macro |-> [usd_jpy |-> 150, jpn_10y |-> 1, us_10y_yield |-> 4,
                brent_crude |-> 80,
                fear_greed |-> [value |-> 40, label |-> "Fear"]],
     news |-> [last_fetched |-> Tprev, source |-> "newsdata", headlines |-> 1],
     manual |-> PrevManual,
     kill_switches |->
         buildKillSwitches(PrevManual, [market_cap |-> 1, source |-> "coingecko"],
                           [total_aum |-> 1]),
     thesis_scores |-> [ThesisDefault EXCEPT !["odl_volume"] = "TRACKING"],
     health_check |-> [k \in HealthKeys |-> "ok"],
     bear_case |-> 7, probability |-> 1,
     last_analysis |-> [timestamp |-> Tprev, applied_at |-> Tprev,
                        changes_applied |-> 2],
     x402_agent |-> [payments_sent |-> 3, session_drops_spent |-> 3000,
                     transactions |-> <<"SUCCESS", "SUCCESS", "SUCCESS">>]]

PrevFiles == {EmptyDoc, PrevFull}

(***************************************************************************)
(* Upstream answers the adapters are run against                           *)
(***************************************************************************)
XrpAttempts ==
    {Err,
     Ok([ripple |-> TRUE, usd |-> 2, usd_24h_change |-> 1, usd_24h_vol |-> 3,
         usd_market_cap |-> 4]),
     Ok([ripple |-> TRUE, usd |-> Undef, usd_24h_change |-> 1,
         usd_24h_vol |-> 3, usd_market_cap |-> 4]),
     Ok([ripple |-> FALSE, usd |-> Undef, usd_24h_change |-> Undef,
         usd_24h_vol |-> Undef, usd_market_cap |-> Undef])}

RlusdAttempts ==
    {Err, Ok([entry |-> TRUE, usd_market_cap |-> 3]),
     Ok([entry |-> FALSE, usd_market_cap |-> Undef])}

SearchAttempts == {Err, Ok([found |-> TRUE]), Ok([found |-> FALSE])}

FearGreedAttempts ==
    {Err, Ok([entry |-> TRUE, value |-> 55, label |-> "Greed"]),
     Ok([entry |-> FALSE, value |-> Undef, label |-> SUndef])}

AlphaVantageAttempts ==
    {Err, Ok([series |-> TRUE, rate |-> 151]), Ok([series |-> TRUE, rate |-> NaNv]),
     Ok([series |-> FALSE, rate |-> Undef])}

FrankfurterAttempts == {Err, Ok([rate |-> 151]), Ok([rate |-> Undef])}

CryptoPanicAttempts ==
    {Err, Ok([results |-> 2, headlines |-> 2]), Ok([results |-> 0, headlines |-> 0])}

NewsDataAttempts ==
    {Err, Ok([results |-> 3, headlines |-> 3]), Ok([results |-> 0, headlines |-> 0])}

EtfAttempts ==
    {Err, Ok([shape |-> TRUE, totalAUM |-> 2, totalXRP |-> 3, nfunds |-> 2]),
     Ok([shape |-> FALSE, totalAUM |-> Undef, totalXRP |-> Undef, nfunds |-> 0])}

RadarAttempts ==
    {Err,
     Ok([shape |-> TRUE, totalSupply |-> Undef, circulatingSupply |-> 61,
         escrow |-> 34, exchanges |-> Undef]),
     Ok([shape |-> FALSE, totalSupply |-> Undef, circulatingSupply |-> Undef,
         escrow |-> Undef, exchanges |-> Undef])}

IbitAttempts ==
    {Err, Ok([asof |-> 2, shares |-> 4, aum |-> 8]),
     Ok([asof |-> BadDate, shares |-> 4, aum |-> 8]),
     Ok([asof |-> 2, shares |-> Undef, aum |-> 8]),
     Ok([asof |-> 2, shares |-> 0, aum |-> 8])}

EthaAttempts == {Err, Ok([asof |-> 1, shares |-> 3, aum |-> 6])}

TokensAttempts ==
    {Err, Err403, Ok([isArray |-> TRUE, volume |-> 6, exchanges |-> 4, takers |-> 3])}

LedgerAttempts ==
    {Err, Ok([hasLedgers |-> TRUE, avg_tx |-> 6, destroyed |-> <<5000, 15000>>,
              current |-> 8])}

OnTheDexAttempts ==
    {Err, Ok([pairs |-> 2, volume |-> 6, trades |-> 4]),
     Ok([pairs |-> 0, volume |-> 0, trades |-> 0])}

TwelveDataAttempts ==
    {Err, Ok([values |-> 1, close |-> 2]), Ok([values |-> 0, close |-> Undef])}

FredAttempts == {Err, Ok([obs |-> TRUE, value |-> 5]), Ok([obs |-> FALSE, value |-> Undef])}

(* the outcomes of withRetry over these attempts *)
(***************************************************************************)
(* The documents the analyst stage can leave in analysis-output.json, and  *)
(* the pages apply-analysis.js can find                                    *)
(***************************************************************************)
ParaIds == {"thesisPulseText", "stressInterpretText", "energyInterpretText",
            "geoWatchlist"}

NoTexts == [p \in ParaIds |-> 0]

NoProb == [present |-> FALSE, reasoning |-> 0, value |-> Null]

NoDocument ==
    [present |-> FALSE, timestamp |-> Null, scorecard_updates |-> <<>>,
     kill_switch_updates |-> <<>>, prob |-> NoProb, events_draft |-> <<>>,
     texts |-> NoTexts]

BlankDocument == [NoDocument EXCEPT !.present = TRUE, !.timestamp = Tnow]

ScorecardDraft ==
    <<[category |-> "ODL Volume", previous_status |-> "TRACKING",
       recommended_status |-> "STRONG"],
      [category |-> "ETF Adoption", previous_status |-> "CONFIRMED",
       recommended_status |-> "CONFIRMED"],
      [category |-> "Sentiment", previous_status |-> "WEAK",
       recommended_status |-> "STRONG"]>>

KillSwitchDraft ==
    <<[name |-> "XRP ETF AUM", previous_status |-> "TRACKING",
       recommended_status |-> "HIT", reasoning |-> 1],
      [name |-> "Token Velocity", previous_status |-> "TRACKING",
       recommended_status |-> "HIT", reasoning |-> 0]>>

\* updates whose label is a member of Object.prototype
InheritedDraft ==
    <<[category |-> "constructor", previous_status |-> "WEAK",
       recommended_status |-> "STRONG"]>>

InheritedKSDraft ==
    <<[name |-> "constructor", previous_status |-> "TRACKING",
       recommended_status |-> "HIT", reasoning |-> 1]>>

ProbDraft == [present |-> TRUE, reasoning |-> 1, value |-> 2]

T_US == <<"U", "S">>
T_us == <<"u", "s">>
T_U_S == <<"U", ".", "S", ".">>
T_Us == <<"U", "'", "s">>

EventDrafts == {<<T_US, T_us>>, <<T_U_S, T_US>>, <<T_Us>>, <<T_us>>}

Documents ==
    {BlankDocument,
     [BlankDocument EXCEPT !.scorecard_updates = ScorecardDraft],
     [BlankDocument EXCEPT !.kill_switch_updates = KillSwitchDraft],
     [BlankDocument EXCEPT !.scorecard_updates = InheritedDraft,
                           !.kill_switch_updates = InheritedKSDraft],
     [BlankDocument EXCEPT !.prob = ProbDraft],
     [BlankDocument EXCEPT !.prob = [ProbDraft EXCEPT !.reasoning = 0]],
     [BlankDocument EXCEPT !.texts = [NoTexts EXCEPT !["thesisPulseText"] = 1,
                                                     !["geoWatchlist"] = 1]]}
    \cup {[BlankDocument EXCEPT !.events_draft = d] : d \in EventDrafts}
    \cup {[BlankDocument EXCEPT !.events_draft = <<T_us>>,
                                !.texts = [NoTexts EXCEPT !["thesisPulseText"] = 1]]}

NoPage == [events |-> <<>>, paras |-> NoTexts]

Pages ==
    {NoPage, [NoPage EXCEPT !.events = <<buildEventEntry(T_US)>>],
     [NoPage EXCEPT !.events = <<buildEventEntry(T_Us)>>]}

(***************************************************************************)
(* State                                                                   *)
(***************************************************************************)
VARIABLES
    file,         \* dashboard-data.json
    env,          \* process.env of the fetch cycle: which API keys are set
    pc,           \* fetch-data.js main(): the step it is at
    existing,     \* fetch-data.js main(): the object loadExisting() returned
    res,          \* fetch-data.js main(): what the adapters returned
    fetchHealth,  \* fetch-data.js: the fetchHealth map
    up,           \* the adapter that ran last and how its upstream calls ended
    tgCalls,      \* calls of sendTelegram in the cycle
    tgPosts,      \* POSTs sendTelegram made to the Telegram API
    exitCode,     \* exit code of the fetch process, Null while it runs
    analysis,     \* analysis-output.json
    html,         \* index.html: the entries of EVENTS_DATA and the paragraphs
    history,      \* events-history.json: the title keys inserted so far
    dashboardBackup,  \* dashboard-data.backup.json
    indexBackup,  \* index.backup.html
    apc,          \* apply-analysis.js main(): the step it is at
    dashboard,    \* apply-analysis.js main(): the parsed dashboard
    changes,      \* apply-analysis.js main(): changes
    changelogEntries, \* apply-analysis.js main(): entries pushed in this run
    changelog,    \* analysis-changelog.txt: entries appended so far
    applyRuns,    \* runs of apply-analysis.js started
    applyExit,    \* exit code of the last run, Null while it runs
    lastDoc,      \* the document the previous run applied
    reapply,      \* this run applies the document of the run before it to
                  \* the state that run left
    disk,         \* the files of apply-analysis.js on disk: the ones a failed
                  \* write left partly written (torn), the backup files
                  \* there are (saved), the backups this run made (fresh)
    insertedNow,  \* the events this run inserted: title, and whether its key
                  \* was in the history file or among the titles of index.html
    agentEnv,     \* process.env of the agent: X402_MAINNET_SEED is set
    gpc,          \* x402-agent.js main(): the step it is at
    endpoint,     \* x402-agent.js main(): index of the endpoint of the loop
    req,          \* x402Request: the amount of the 402 challenge, in drops
    prevCount,    \* x402-agent.js main(): prevCount
    transactions, \* x402-agent.js main(): transactions
    submitted,    \* the payments signed and sent: endpoint, amount, and
                  \* the session total with it
    demanded,     \* per endpoint, the amount its 402 challenge demanded
    invoiceId,    \* x402Request: invoiceId, the UTF-8 bytes of the string
    challenged,   \* per endpoint, the invoiceId its 402 challenge carried,
                  \* empty when it carried none
    agentExit,    \* exit code of the agent, Null while it runs
    pendingInvoices, \* x402-merchant.js: pendingInvoices, invoiceId to amount
    issued,       \* the number of invoices the merchant has issued
    reqs,         \* the requests with a PAYMENT-SIGNATURE the routes have
                  \* received: what each named, the facilitator calls made
                  \* for it and the status it was answered with
    npc,          \* the analysis step, main(): the step it is at
    anEnv,        \* the analysis step: thesis-context.md is there, and which
                  \* of process.env is set
    modelCalls,   \* calls of client.messages.create in the run
    raw,          \* the analysis step, main(): raw
    debugFile,    \* debug-claude-response.txt
    notices,      \* the analysis step: how each call of sendTelegram ended
    analysisExit, \* exit code of the analysis step, Null while it runs
    gecko,        \* fetchXRP and fetchRLUSD of one fetch cycle, as timed
                  \* tasks: what each waits for, until when (ms after the
                  \* start of Promise.all), and the request it is at
    geckoLog,     \* the times at which requests to CoinGecko were issued
    calc          \* a function run on its own: its name, the arguments it
                  \* was given and, once it has run, what it returned

fetchVars == <<env, pc, existing, res, fetchHealth, up, tgCalls, tgPosts, exitCode>>

applyVars == <<analysis, html, history, dashboardBackup, indexBackup, apc,
               dashboard, changes, changelogEntries, changelog, applyRuns,
               applyExit, lastDoc, reapply, insertedNow, disk>>

agentVars == <<agentEnv, gpc, endpoint, req, prevCount, transactions, submitted, demanded,
              invoiceId, challenged, agentExit>>

merchantVars == <<pendingInvoices, issued, reqs>>

analysisVars == <<npc, anEnv, modelCalls, raw, debugFile, notices, analysisExit>>

geckoVars == <<gecko, geckoLog>>

calcVars == <<calc>>

restVars == <<merchantVars, analysisVars, geckoVars, calcVars>>

vars == <<file, fetchVars, applyVars, agentVars, restVars>>

NoUp == [key |-> "none", calls |-> "none", fresh |-> FALSE]

InitFetch ==
    /\ env \in [FRED_API_KEY : BOOLEAN]
    /\ pc = "load"
    /\ existing = EmptyDoc
    /\ res = DefaultRes
    /\ fetchHealth = NoHealth
    /\ up = NoUp
    /\ tgCalls = 0
    /\ tgPosts = 0
    /\ exitCode = Null

\* apply-analysis.js is not running
InitApply ==
    /\ history = {}
    /\ dashboardBackup = EmptyDoc
    /\ indexBackup = NoPage
    /\ apc = "idle"
    /\ dashboard = EmptyDoc
    /\ changes = 0
    /\ changelogEntries = 0
    /\ changelog = 0
    /\ applyRuns = 0
    /\ applyExit = Null
    /\ lastDoc = NoDocument
    /\ reapply = FALSE
    /\ insertedNow = {}
    /\ disk = [torn |-> {}, saved |-> {}, fresh |-> {}]

\* x402-agent.js is not running
InitAgent ==
    /\ agentEnv \in [X402_MAINNET_SEED : BOOLEAN]
    /\ gpc = "start"
    /\ endpoint = 1
    /\ req = Null
    /\ prevCount = 0
    /\ transactions = <<>>
    /\ submitted = <<>>
    /\ demanded = <<>>
    /\ invoiceId = <<>>
    /\ challenged = <<>>
    /\ agentExit = Null

\* the merchant server has started: no invoice, no request
MaxInvoices == 2

MaxRequests == 2

InitMerchant ==
    /\ pendingInvoices = {}
    /\ issued = 0
    /\ reqs = [r \in 1..MaxRequests |->
                 [step |-> "none", route |-> 0, invoice |-> 0, decoded |-> FALSE,
                  known |-> FALSE, calls |-> <<>>, status |-> Null,
                  required |-> 0, amount_drops |-> 0]]

\* no text: raw before the response, and the debug file before it is written
NoText == [fence |-> "none", kind |-> "absent", doc |-> NoDocument]

\* the analysis step is not running
InitAnalysis ==
    /\ npc = "start"
    /\ modelCalls = 0
    /\ raw = NoText
    /\ debugFile = NoText
    /\ notices = <<>>
    /\ analysisExit = Null

COINGECKO_DELAY_MS == 1200

\* Promise.all has called fetchXRP and fetchRLUSD: fetchXRP is about to issue
\* its request, fetchRLUSD sleeps COINGECKO_DELAY_MS first
InitGecko ==
    /\ gecko = [xrp |-> [pc |-> "sleep", wake |-> 0, attempt |-> 0,
                         stage |-> "primary"],
                rlusd |-> [pc |-> "sleep", wake |-> COINGECKO_DELAY_MS,
                           attempt |-> 0, stage |-> "primary"]]
    /\ geckoLog = <<>>

\* no function is run on its own
InitCalc == calc = [fn |-> "none"]

InitRest ==
    /\ InitMerchant
    /\ InitAnalysis
    /\ InitGecko
    /\ InitCalc
    /\ anEnv = [thesis |-> TRUE, ANTHROPIC_API_KEY |-> TRUE, TELEGRAM |-> TRUE]

Init ==
    /\ file \in PrevFiles
    /\ InitFetch
    /\ InitApply
    /\ analysis = NoDocument
    /\ html = NoPage
    /\ InitAgent /\ agentEnv.X402_MAINNET_SEED
    /\ InitRest

\* the cycles explored: at most this many sources end in 'fail'
MaxFailedSources == 3

\* markHealth(key, status) together with the record of the upstream calls
Mark(key, a) ==
    /\ fetchHealth' = [fetchHealth EXCEPT ![key] = a.health]
    /\ Cardinality(failedSources(fetchHealth')) <= MaxFailedSources
    /\ up' = [key |-> key, calls |-> a.up, fresh |-> a.fresh]

(***************************************************************************)
(* fetch-data.js main().  The adapters of Promise.all are taken in the     *)
(* order of the array: each reads the snapshot existing and writes its own *)
(* result and its own slot of fetchHealth only.                            *)
(***************************************************************************)
LoadExisting ==
    /\ pc = "load"
    /\ existing' = file
    /\ pc' = "xrp"
    /\ UNCHANGED <<file, env, res, fetchHealth, up, tgCalls, tgPosts, exitCode,
                 applyVars, agentVars, restVars>>

RunXRP ==
    /\ pc = "xrp"
    /\ \E a \in {fetchXRP(existing, r) :
                  r \in Calls(XrpAttempts)} :
         res' = [res EXCEPT !.xrp = a.val] /\ Mark("xrp", a)
    /\ pc' = "rlusd"
    /\ UNCHANGED <<file, env, existing, tgCalls, tgPosts, exitCode,
                 applyVars, agentVars, restVars>>

RunRLUSD ==
    /\ pc = "rlusd"
    /\ \E a \in {fetchRLUSD(existing, r1, r2, r3) :
                  r1 \in Calls(RlusdAttempts), r2 \in Calls(SearchAttempts),
                  r3 \in Calls(RlusdAttempts)} :
         res' = [res EXCEPT !.rlusd = a.val] /\ Mark("rlusd", a)
    /\ pc' = "fear_greed"
    /\ UNCHANGED <<file, env, existing, tgCalls, tgPosts, exitCode,
                 applyVars, agentVars, restVars>>

RunFearGreed ==
    /\ pc = "fear_greed"
    /\ \E a \in {fetchFearGreed(existing, r) :
                  r \in Calls(FearGreedAttempts)} :
         res' = [res EXCEPT !.fearGreed = a.val] /\ Mark("fear_greed", a)
    /\ pc' = "usd_jpy"
    /\ UNCHANGED <<file, env, existing, tgCalls, tgPosts, exitCode,
                 applyVars, agentVars, restVars>>

RunUSDJPY ==
    /\ pc = "usd_jpy"
    /\ \E a \in {fetchUSDJPY(existing, avKey, r1, r2) :
                  avKey \in BOOLEAN, r1 \in Calls(AlphaVantageAttempts),
                  r2 \in Calls(FrankfurterAttempts)} :
         res' = [res EXCEPT !.usdJpy = a.val] /\ Mark("usd_jpy", a)
    /\ pc' = "news"
    /\ UNCHANGED <<file, env, existing, tgCalls, tgPosts, exitCode,
                 applyVars, agentVars, restVars>>

RunNews ==
    /\ pc = "news"
    /\ \E a \in {fetchNews(existing, cpKey, ndKey, r1, r2) :
                  cpKey \in BOOLEAN, ndKey \in BOOLEAN,
                  r1 \in Calls(CryptoPanicAttempts),
                  r2 \in Calls(NewsDataAttempts)} :
         res' = [res EXCEPT !.news = a.val] /\ Mark("news", a)
    /\ pc' = "etf"
    /\ UNCHANGED <<file, env, existing, tgCalls, tgPosts, exitCode,
                 applyVars, agentVars, restVars>>

RunETF ==
    /\ pc = "etf"
    /\ \E a \in {fetchETF(existing, r) :
                  r \in Calls(EtfAttempts)} :
         res' = [res EXCEPT !.etf = a.val] /\ Mark("etf", a)
    /\ pc' = "supply"
    /\ UNCHANGED <<file, env, existing, tgCalls, tgPosts, exitCode,
                 applyVars, agentVars, restVars>>

RunXRPRadar ==
    /\ pc = "supply"
    /\ \E a \in {fetchXRPRadar(existing, r) :
                  r \in Calls(RadarAttempts)} :
         res' = [res EXCEPT !.supply = a.val] /\ Mark("supply", a)
    /\ pc' = "btc_etf"
    /\ UNCHANGED <<file, env, existing, tgCalls, tgPosts, exitCode,
                 applyVars, agentVars, restVars>>

RunBTCETF ==
    /\ pc = "btc_etf"
    /\ \E a \in {fetchBTCETF(existing, r) :
                  r \in Calls(IbitAttempts)} :
         res' = [res EXCEPT !.btc_etf = a.val] /\ Mark(a.key, a)
    /\ pc' = "eth_etf"
    /\ UNCHANGED <<file, env, existing, tgCalls, tgPosts, exitCode,
                 applyVars, agentVars, restVars>>

RunETHETF ==
    /\ pc = "eth_etf"
    /\ \E a \in {fetchETHETF(existing, r) :
                  r \in Calls(EthaAttempts)} :
         res' = [res EXCEPT !.eth_etf = a.val] /\ Mark(a.key, a)
    /\ pc' = "xrpl_metrics"
    /\ UNCHANGED <<file, env, existing, tgCalls, tgPosts, exitCode,
                 applyVars, agentVars, restVars>>

RunXRPLMetrics ==
    /\ pc = "xrpl_metrics"
    /\ \E a \in {fetchXRPLMetrics(existing, r1, r2, first, r3) :
                  r1 \in Calls(TokensAttempts), r2 \in Calls(LedgerAttempts),
                  first \in {1, 2}, r3 \in Calls(OnTheDexAttempts)} :
         res' = [res EXCEPT !.xrpl_metrics = a.val] /\ Mark("xrpl_metrics", a)
    /\ pc' = "enrich"
    /\ UNCHANGED <<file, env, existing, tgCalls, tgPosts, exitCode,
                 applyVars, agentVars, restVars>>

\* the derived fields computed once Promise.all has settled
Enrich ==
    /\ pc = "enrich"
    /\ res' = [res EXCEPT !.xrpl_metrics = EnrichXrpl(res.xrpl_metrics, res.xrp),
                          !.etf = EnrichEtf(res.etf, res.xrp)]
    /\ pc' = "jpn_10y"
    /\ up' = NoUp
    /\ UNCHANGED <<file, env, existing, fetchHealth, tgCalls, tgPosts, exitCode,
                 applyVars, agentVars, restVars>>

RunJPN10Y ==
    /\ pc = "jpn_10y"
    /\ \E a \in {fetchJPN10Y(existing.macro.jpn_10y, tdKey, r1, env.FRED_API_KEY, r2) :
                  tdKey \in BOOLEAN, r1 \in Calls(TwelveDataAttempts),
                  r2 \in Calls(FredAttempts)} :
         res' = [res EXCEPT !.jpn10y = a.val] /\ Mark("fred_jpn_10y", a)
    /\ pc' = "brent"
    /\ UNCHANGED <<file, env, existing, tgCalls, tgPosts, exitCode,
                 applyVars, agentVars, restVars>>

RunBrent ==
    /\ pc = "brent"
    /\ \E a \in {fetchFRED(existing.macro.brent_crude, env.FRED_API_KEY, r) :
                  r \in Calls(FredAttempts)} :
         res' = [res EXCEPT !.brent = a.val] /\ Mark("fred_brent", a)
    /\ pc' = "us_10y"
    /\ UNCHANGED <<file, env, existing, tgCalls, tgPosts, exitCode,
                 applyVars, agentVars, restVars>>

RunUS10Y ==
    /\ pc = "us_10y"
    /\ \E a \in {fetchFRED(existing.macro.us_10y_yield, env.FRED_API_KEY, r) :
                  r \in Calls(FredAttempts)} :
         res' = [res EXCEPT !.us10y = a.val] /\ Mark("fred_us_10y", a)
    /\ pc' = "write"
    /\ UNCHANGED <<file, env, existing, tgCalls, tgPosts, exitCode,
                 applyVars, agentVars, restVars>>

\* the output object is assembled and written over the file
WriteOutput ==
    /\ pc = "write"
    /\ file' = Output(existing, res, fetchHealth)
    /\ pc' = "alert"
    /\ UNCHANGED <<env, existing, res, fetchHealth, up, tgCalls, tgPosts, exitCode,
                 applyVars, agentVars, restVars>>

\* the alert of main(), then pushToGitHub, which catches the errors of git:
\* main() returns and the process exits with code 0.  sendTelegram makes no
\* POST when the bot token or the chat id is not set.
AlertAndPush ==
    /\ pc = "alert"
    /\ IF Cardinality(failedSources(fetchHealth)) >= AlertThreshold
       THEN \E credentials \in BOOLEAN :
              /\ tgCalls' = tgCalls + 1
              /\ tgPosts' = IF credentials THEN tgPosts + 1 ELSE tgPosts
       ELSE UNCHANGED <<tgCalls, tgPosts>>
    /\ pc' = "done"
    /\ exitCode' = 0
    /\ UNCHANGED <<file, env, existing, res, fetchHealth, up,
                 applyVars, agentVars, restVars>>

NextFetch ==
    \/ LoadExisting \/ RunXRP \/ RunRLUSD \/ RunFearGreed \/ RunUSDJPY
    \/ RunNews \/ RunETF \/ RunXRPRadar \/ RunBTCETF \/ RunETHETF
    \/ RunXRPLMetrics \/ Enrich \/ RunJPN10Y \/ RunBrent \/ RunUS10Y
    \/ WriteOutput \/ AlertAndPush

Next == NextFetch

Spec == Init /\ [][Next]_vars

(***************************************************************************)
(* apply-analysis.js main(), and the analyst stage that leaves a new       *)
(* analysis-output.json between runs                                       *)
(***************************************************************************)
MaxApplyRuns == 2

Resting == apc \in {"idle", "done", "failed"}

Analyze ==
    /\ Resting /\ applyRuns < MaxApplyRuns
    /\ analysis' \in Documents \ {analysis}
    /\ UNCHANGED <<file, fetchVars, agentVars, restVars, html, history,
                   dashboardBackup, indexBackup,
                   apc, dashboard, changes, changelogEntries, changelog,
                   applyRuns, applyExit, lastDoc, reapply, insertedNow, disk>>

\* fs.writeFileSync ends in one of these ways: the content is written, or
\* it throws and leaves the file as it was, or partly written
WriteOutcomes == {"written", "kept", "torn"}

\* restoreFile(backup, dest) after a write that ended as w: the backup is
\* copied over dest when there is one and the copy does not throw
Restore(name, backupName, w, current, backup) ==
    LET left == [content |-> current,
                 torn |-> IF w = "torn" THEN disk.torn \cup {name}
                          ELSE disk.torn]
        copied == [content |-> backup,
                   torn |-> IF backupName \in disk.torn
                            THEN disk.torn \cup {name}
                            ELSE disk.torn \ {name}]
    IN  IF name \in disk.saved THEN {left, copied} ELSE {left}

\* step 1: both files must exist; they are parsed, and backupFile copies
\* each of them, logging a copy that throws and going on
ApplyStart ==
    /\ Resting /\ applyRuns < MaxApplyRuns
    /\ applyRuns' = applyRuns + 1
    /\ IF \/ ~analysis.present \/ ~file.exists
          \/ "analysis" \in disk.torn \/ "dashboard" \in disk.torn
       THEN /\ apc' = "failed"
            /\ applyExit' = 1
            /\ disk' = [disk EXCEPT !.fresh = {}]
            /\ UNCHANGED <<dashboard, dashboardBackup, indexBackup, changes,
                           changelogEntries, lastDoc, reapply, insertedNow>>
       ELSE /\ apc' = "patch"
            /\ applyExit' = Null
            /\ dashboard' = file
            /\ \E made \in SUBSET {"dashboard", "index"} :
                 /\ dashboardBackup' =
                      IF "dashboard" \in made THEN file ELSE dashboardBackup
                 /\ indexBackup' =
                      IF "index" \in made THEN html ELSE indexBackup
                 /\ disk' =
                      [torn |-> IF "index" \notin made THEN disk.torn
                                ELSE IF "index" \in disk.torn
                                THEN disk.torn \cup {"indexBackup"}
                                ELSE disk.torn \ {"indexBackup"},
                       saved |-> disk.saved \cup made,
                       fresh |-> made]
            /\ changes' = 0
            /\ changelogEntries' = 0
            /\ reapply' = (apc = "done" /\ lastDoc = analysis)
            /\ lastDoc' = analysis
            /\ insertedNow' = {}
    /\ UNCHANGED <<file, fetchVars, agentVars, restVars, analysis, html, history, changelog>>

\* steps 2 to 6: the scorecard, the kill switches, the probability model and
\* the stamp, then the write of dashboard-data.json.  The document is parsed
\* JSON patched with parsed JSON, which JSON.stringify writes back unchanged.
\* When the write fails restoreFile runs and the process exits 1.
ApplyPatch ==
    /\ apc = "patch"
    /\ LET d == StampAnalysis(analysis,
                   ApplyProbability(analysis,
                     ApplyKillSwitches(analysis.kill_switch_updates,
                       ApplyScorecard(analysis.scorecard_updates,
                         [doc |-> dashboard, changes |-> changes,
                          entries |-> changelogEntries]))))
       IN  \E w \in WriteOutcomes :
             IF w = "written"
             THEN /\ file' = d.doc
                  /\ dashboard' = d.doc
                  /\ changes' = d.changes
                  /\ changelogEntries' = d.entries
                  /\ apc' = "events"
                  /\ UNCHANGED <<applyExit, disk>>
             ELSE /\ \E r \in Restore("dashboard", "dashboardBackup", w, file,
                                      dashboardBackup) :
                       /\ file' = r.content
                       /\ disk' = [disk EXCEPT !.torn = r.torn]
                  /\ apc' = "failed"
                  /\ applyExit' = 1
                  /\ UNCHANGED <<dashboard, changes, changelogEntries>>
    /\ UNCHANGED <<fetchVars, agentVars, restVars, analysis, html, history, dashboardBackup,
                   indexBackup, changelog, applyRuns, lastDoc, reapply,
                   insertedNow>>

\* step 7: insertEventsIntoHTML.  New entries go to the top of EVENTS_DATA;
\* the write of index.html is outside any try, so when it throws main()
\* rejects and the process exits 1; saveEventsHistory logs a failed write
\* and goes on.  A partly written index.html has no EVENTS_DATA marker.
ApplyEvents ==
    /\ apc = "events"
    /\ LET r == InsertLoop(IF "index" \in disk.torn THEN <<>>
                           ELSE analysis.events_draft,
                           existingTitles(html.events), history, <<>>)
           inserted == Len(r.newEntries)
           entries == [i \in 1..inserted |-> buildEventEntry(r.newEntries[i])]
       IN  \E w \in IF inserted > 0 THEN WriteOutcomes ELSE {"written"} :
             IF w = "written"
             THEN /\ html' = [html EXCEPT !.events = entries \o @]
                  /\ \E saved \in BOOLEAN :
                        history' = IF inserted > 0 /\ saved THEN r.history
                                   ELSE history
                  /\ changes' = changes + inserted
                  /\ changelogEntries' =
                        changelogEntries + (IF inserted > 0 THEN 1 ELSE 0)
                  /\ insertedNow' =
                        {[title |-> r.newEntries[i],
                          inHistory |-> titleKey(r.newEntries[i]) \in history,
                          inHtml |-> \E j \in 1..Len(html.events) :
                                        titleKey(html.events[j].title)
                                            = titleKey(r.newEntries[i])] :
                           i \in 1..inserted}
                  /\ apc' = "html"
                  /\ UNCHANGED <<applyExit, disk>>
             ELSE /\ disk' = [disk EXCEPT
                                !.torn = IF w = "torn" THEN @ \cup {"index"}
                                         ELSE @]
                  /\ apc' = "failed"
                  /\ applyExit' = 1
                  /\ UNCHANGED <<html, history, changes, changelogEntries,
                                 insertedNow>>
    /\ UNCHANGED <<file, fetchVars, agentVars, restVars, analysis, dashboardBackup, indexBackup,
                   dashboard, changelog, applyRuns, lastDoc, reapply>>

\* step 8: the paragraphs and the watchlist.  When the write of index.html
\* fails restoreFile runs and main() goes on.  A partly written index.html
\* has none of the elements.
ApplyHtml ==
    /\ apc = "html"
    /\ LET out == [p \in ParaIds |->
                      replaceParaById(html.paras[p],
                                      IF "index" \in disk.torn THEN 0
                                      ELSE analysis.texts[p])]
           htmlChanges == Cardinality({p \in ParaIds : out[p].changed})
       IN  /\ changelogEntries' = changelogEntries + htmlChanges
           /\ IF htmlChanges > 0
              THEN \E w \in WriteOutcomes :
                     IF w = "written"
                     THEN /\ html' = [html EXCEPT
                                        !.paras = [p \in ParaIds |-> out[p].text]]
                          /\ changes' = changes + htmlChanges
                          /\ UNCHANGED disk
                     ELSE /\ \E r \in Restore("index", "indexBackup", w, html,
                                              indexBackup) :
                               /\ html' = r.content
                               /\ disk' = [disk EXCEPT !.torn = r.torn]
                          /\ UNCHANGED changes
              ELSE UNCHANGED <<html, changes, disk>>
    /\ apc' = "changelog"
    /\ UNCHANGED <<file, fetchVars, agentVars, restVars, analysis, history, dashboardBackup,
                   indexBackup, dashboard, changelog, applyRuns, applyExit,
                   lastDoc, reapply, insertedNow>>

\* step 9: appendChangelog, and the end of main()
ApplyFinish ==
    /\ apc = "changelog"
    /\ changelog' = changelog + changelogEntries
    /\ apc' = "done"
    /\ applyExit' = 0
    /\ UNCHANGED <<file, fetchVars, agentVars, restVars, analysis, html, history,
                   dashboardBackup,
                   indexBackup, dashboard, changes, changelogEntries,
                   applyRuns, lastDoc, reapply, insertedNow, disk>>

InitApplySpec ==
    /\ file \in PrevFiles
    /\ InitFetch /\ ~env.FRED_API_KEY
    /\ InitApply
    /\ InitAgent /\ agentEnv.X402_MAINNET_SEED
    /\ InitRest
    /\ analysis \in Documents \cup {NoDocument}
    /\ html \in Pages

NextApply ==
    \/ Analyze \/ ApplyStart \/ ApplyPatch \/ ApplyEvents \/ ApplyHtml
    \/ ApplyFinish

SpecApply == InitApplySpec /\ [][NextApply]_vars

(***************************************************************************)
(* Properties of apply-analysis.js                                         *)
(***************************************************************************)
\* C6: a run that applies the document of the run before it to the state
\* that run left counts no scorecard, kill-switch or probability change and
\* logs none: its change count is 0 when dashboard-data.json is written.
C6_SecondRunNoChange ==
    (apc = "events" /\ reapply) => (changes = 0 /\ changelogEntries = 0)

\* a second run of the same document has patched and written the state
C6_SecondRunDone == apc = "events" /\ reapply /\ applyRuns = 2

\* a title without case and without punctuation
RECURSIVE Plain(_)
Plain(title) ==
    IF title = <<>> THEN <<>>
    ELSE IF IsAlnum(Lower(Head(title)))
    THEN <<Lower(Head(title))>> \o Plain(Tail(title))
    ELSE IF Head(title) = " " THEN <<" ">> \o Plain(Tail(title))
    ELSE Plain(Tail(title))

\* C9: EVENTS_DATA never holds two entries whose titles differ only by case
\* or punctuation, and no run inserts an event whose key is in
\* events-history.json or is the key of a title of index.html.
C9_EventsDeduplicated ==
    /\ \A i, j \in 1..Len(html.events) :
          i # j => Plain(html.events[i].title) # Plain(html.events[j].title)
    /\ \A e \in insertedNow : ~e.inHistory /\ ~e.inHtml

\* a run has inserted one of two drafts and skipped the other
C9_OneOfTwoInserted ==
    /\ apc = "html" /\ Len(analysis.events_draft) = 2
    /\ Cardinality(insertedNow) = 1

\* C11: a failed write of index.html is followed by a restore from its
\* backup, so after a run that backed index.html up the file is never left
\* partly written.
C11_RestoredAfterFailedWrite ==
    (Resting /\ "index" \in disk.fresh) => "index" \notin disk.torn

\* a run that backed up both files and wrote dashboard-data.json has failed
\* at a later write
C11_FailedAfterPatch ==
    /\ apc = "failed" /\ applyExit = 1
    /\ disk.fresh = {"dashboard", "index"}
    /\ file # dashboardBackup

\* C12: no step of a run writes dashboard-data.json or index.html unless the
\* run has made a backup of that file before.
C12_BackupBeforeWrite ==
    [][/\ file' # file => "dashboard" \in disk.fresh
       /\ html' # html => "index" \in disk.fresh]_vars

\* a run has written dashboard-data.json after it backed it up
C12_WrittenWithBackup ==
    /\ apc = "events" /\ "dashboard" \in disk.fresh
    /\ file # dashboardBackup

\* the categories of SCORE_KEY_MAP and the names of KS_KEY_MAP
ScoreLabels ==
    {"Regulatory Clarity", "Regulatory", "Institutional Custody", "ETF Adoption",
     "XRPL Infrastructure", "Stablecoin (RLUSD)", "Stablecoin Adoption", "RLUSD",
     "ODL Volume", "Japan Adoption", "Macro Environment", "Macro"}

KSLabels ==
    {"ODL Volume", "RLUSD Circulation", "Permissioned DEX", "XRP ETF AUM",
     "Japan Adoption", "Clarity Act", "Announcement-to-Deployment",
     "Token Velocity", "Competitive Displacement", "ODL Transparency"}

\* the keys thesis_scores and kill_switches of a document have
ScoreKeysOf(doc) == {k \in DOMAIN doc.thesis_scores : doc.thesis_scores[k] # SUndef}

KSKeysOf(doc) == {k \in DOMAIN doc.kill_switches : doc.kill_switches[k] # KSEntryAbsent}

\* C18: the patch a run writes adds no key to thesis_scores but values of
\* SCORE_KEY_MAP, adds and removes no key of kill_switches, and when no update
\* of the document
\* has a category or name of the tables, thesis_scores and kill_switches
\* stay as they were and, the document holding nothing else, no change is
\* counted.
C18_NoAdHocFields ==
    [][(apc = "patch" /\ apc' = "events") =>
         /\ ScoreKeysOf(file') \subseteq ScoreKeysOf(file) \cup ScoreKeys
         /\ KSKeysOf(file') = KSKeysOf(file)
         /\ ((\A i \in 1..Len(analysis.scorecard_updates) :
                 analysis.scorecard_updates[i].category \notin ScoreLabels)
             /\ (\A j \in 1..Len(analysis.kill_switch_updates) :
                    analysis.kill_switch_updates[j].name \notin KSLabels))
              => /\ file'.thesis_scores = file.thesis_scores
                 /\ file'.kill_switches = file.kill_switches
                 /\ [analysis EXCEPT !.scorecard_updates = <<>>,
                                     !.kill_switch_updates = <<>>]
                        = BlankDocument
                    => changes' = 0]_vars

\* a run has applied a scorecard update whose category is "constructor"
C18_InheritedLabelApplied ==
    /\ apc = "events"
    /\ analysis.scorecard_updates = InheritedDraft
    /\ file.exists

(***************************************************************************)
(* Properties of the fetch cycle                                           *)
(***************************************************************************)
Written == pc \in {"alert", "done"}

NumFailed == Cardinality({k \in HealthKeys : fetchHealth[k] = "fail"})

\* what the adapter of a health slot returned, and what the state read at
\* the start of the cycle holds for it (the default where it holds nothing)
ReturnedBy(k) ==
    CASE k = "xrp" -> res.xrp
      [] k = "rlusd" -> res.rlusd
      [] k = "fear_greed" -> res.fearGreed
      [] k = "usd_jpy" -> res.usdJpy
      [] k = "news" -> res.news
      [] k = "etf" -> res.etf
      [] k = "supply" -> res.supply
      [] k = "ibit" -> res.btc_etf
      [] k = "etha" -> res.eth_etf
      [] k = "xrpl_metrics" -> res.xrpl_metrics
      [] k = "fred_jpn_10y" -> res.jpn10y
      [] k = "fred_brent" -> res.brent
      [] OTHER -> res.us10y

PreviousOf(k) ==
    CASE k = "xrp" -> existing.xrp
      [] k = "rlusd" -> existing.rlusd
      [] k = "fear_greed" -> existing.macro.fear_greed
      [] k = "usd_jpy" -> Coalesce(existing.macro.usd_jpy, Null)
      [] k = "news" -> existing.news
      [] k = "etf" -> existing.etf
      [] k = "supply" -> existing.supply
      [] k = "ibit" -> existing.btc_etf
      [] k = "etha" -> existing.eth_etf
      [] k = "xrpl_metrics" -> existing.xrpl_metrics
      [] k = "fred_jpn_10y" -> Coalesce(existing.macro.jpn_10y, Null)
      [] k = "fred_brent" -> Coalesce(existing.macro.brent_crude, Null)
      [] OTHER -> Coalesce(existing.macro.us_10y_yield, Null)

\* C1: every top-level key the state file holds when a fetch cycle starts is
\* still in the file the cycle writes, whichever component wrote the key.
C1_KeysPreserved == Written => existing.keys \subseteq file.keys

\* a cycle that started from a file holding the x402_agent block has written
C1_AgentBlockCycle == Written /\ Has(existing, "x402_agent")

\* C2: an adapter whose upstream calls all failed returns the previous
\* record (the default when there is none) and marks its source 'fail'.
C2_AllFailedMarksFail ==
    up.calls = "failed" =>
        /\ fetchHealth[up.key] = "fail"
        /\ ReturnedBy(up.key) = PreviousOf(up.key)

\* the news adapter has run with every call it made failed
C2_NewsAllFailed == up.key = "news" /\ up.calls = "failed"

\* C3: a live metric that is non-null in the previous state is not written
\* as null: a response that omits the field keeps the previous value.
C3_NeverNulled ==
    Written =>
        /\ \A f \in DOMAIN XrpDefault :
              ~Nullish(existing.xrp[f]) => ~Nullish(file.xrp[f])
        /\ ~Nullish(existing.rlusd.market_cap) => ~Nullish(file.rlusd.market_cap)

\* a cycle whose XRP call answered has written over a previous price
C3_FreshOverPrevious ==
    Written /\ fetchHealth["xrp"] = "ok" /\ ~Nullish(existing.xrp.price)

ManualSet(m, k) ==
    IF k = "clarity_act_status" THEN m[k] \notin {SNull, SUndef}
    ELSE ~Nullish(m[k])

EditorialKeys == {"thesis_scores", "probability", "bear_case", "last_analysis"}

\* C5: thesis_scores, probability, bear_case and last_analysis, when the
\* state read at the start of the cycle holds them, have the identical value
\* in the state the cycle writes.
C5_EditorialPreserved ==
    Written =>
        /\ Has(existing, "thesis_scores") =>
              Has(file, "thesis_scores")
              /\ file.thesis_scores = existing.thesis_scores
        /\ Has(existing, "probability") =>
              Has(file, "probability") /\ file.probability = existing.probability
        /\ Has(existing, "bear_case") =>
              Has(file, "bear_case") /\ file.bear_case = existing.bear_case
        /\ Has(existing, "last_analysis") =>
              Has(file, "last_analysis")
              /\ file.last_analysis = existing.last_analysis

\* a cycle with failed and answered sources has written over a file that
\* held edited editorial fields
C5_EditorialCycle ==
    /\ Written /\ EditorialKeys \subseteq existing.keys
    /\ existing.thesis_scores # ThesisDefault
    /\ NumFailed >= 1 /\ fetchHealth["xrp"] = "ok"

ZeroOrNull(x) == Nullish(x) \/ x = 0

\* C7: in the written state a derived field is null whenever its denominator
\* is null or 0, and is neither NaN nor Infinity.
C7_DerivedGuarded ==
    Written =>
        /\ ZeroOrNull(file.xrp.price) =>
              /\ Nullish(file.xrpl_metrics.dex_volume_24h_xrp)
              /\ Nullish(file.etf.pct_supply)
              /\ Nullish(file.etf.circ_supply)
        /\ ZeroOrNull(file.xrp.market_cap) => Nullish(file.etf.pct_supply)
        /\ \A e \in {file.btc_etf, file.eth_etf} :
              /\ ZeroOrNull(e.shares_outstanding) => Nullish(e.nav_per_share)
              /\ Finite(e.nav_per_share)
        /\ \A k \in KSKeys :
              /\ Nullish(file.kill_switches[k].current) =>
                    Nullish(file.kill_switches[k].pct_complete)
              /\ Finite(file.kill_switches[k].pct_complete)
        /\ Finite(file.xrpl_metrics.dex_volume_24h_xrp)
        /\ Finite(file.etf.pct_supply) /\ Finite(file.etf.circ_supply)

\* a cycle has written a state without an XRP price
C7_NoPriceCycle == Written /\ ZeroOrNull(file.xrp.price)

C8_QuietCycle ==
    /\ pc = "done" /\ tgCalls = 0 /\ NumFailed = AlertThreshold - 1
    /\ Cardinality({k \in HealthKeys : fetchHealth[k] = "skip"}) >= 2

StepRank(p) ==
    LET Steps == <<"load", "xrp", "rlusd", "fear_greed", "usd_jpy", "news",
                   "etf", "supply", "btc_etf", "eth_etf", "xrpl_metrics",
                   "enrich", "jpn_10y", "brent", "us_10y", "write", "alert",
                   "done">>
    IN  CHOOSE i \in 1..Len(Steps) : Steps[i] = p

NumEndpoints == 3

ERROR_BALANCE == 2

\* the guardrails of the decision record: per-transaction max and session cap
PerTxMax == 5000

SessionCap == 10000

\* the amounts a 402 challenge can demand, and the balances of the wallet
\* (XRP)
ChallengeAmounts == {1000, 4000, 6000}

Balances == {1, 20}

\* totalDropsSpent over the transactions recorded so far
RECURSIVE SumDrops(_)
SumDrops(txs) ==
    IF txs = <<>> THEN 0
    ELSE SumDrops(Tail(txs))
         + (IF Head(txs).status = "SUCCESS" /\ Head(txs).amount_drops # Undef
            THEN Head(txs).amount_drops ELSE 0)

\* the drops of the payments signed and sent so far
RECURSIVE SumSubmitted(_)
SumSubmitted(subs) ==
    IF subs = <<>> THEN 0 ELSE Head(subs).amount + SumSubmitted(Tail(subs))

\* a start that does not look at the seed
AgentStartUnchecked ==
    /\ gpc = "start"
    /\ gpc' = "challenge"
    /\ prevCount' = 0
    /\ UNCHANGED <<file, fetchVars, applyVars, restVars, agentEnv, endpoint, req,
                   transactions, submitted, demanded, invoiceId, challenged,
                   agentExit>>

\* the preconditions of main(): the seed, the ledger connection, the balance
\* and the merchant health; then prevCount is read from dashboard-data.json
AgentStart ==
    /\ gpc = "start"
    /\ \E connected \in BOOLEAN, balance \in Balances, healthy \in BOOLEAN :
         IF /\ agentEnv.X402_MAINNET_SEED
            /\ connected /\ balance >= ERROR_BALANCE /\ healthy
         THEN /\ gpc' = "challenge"
              /\ prevCount' = IF file.exists
                              THEN Coalesce(file.x402_agent.payments_sent, 0)
                              ELSE 0
              /\ UNCHANGED agentExit
         ELSE /\ gpc' = "exit"
              /\ agentExit' = 1
              /\ UNCHANGED prevCount
    /\ UNCHANGED <<file, fetchVars, applyVars, restVars, agentEnv, endpoint, req,
                   transactions, submitted, demanded, invoiceId, challenged>>

\* the invoiceIds a 402 challenge can carry: the UTF-8 bytes of "a", "a7"
InvoiceIds == {<<97>>, <<97, 55>>}

HexDigits ==
    <<"0", "1", "2", "3", "4", "5", "6", "7", "8", "9", "A", "B", "C", "D", "E", "F">>

\* an encoding with one digit for each byte, the low one
HexLowNibble(bytes) ==
    [i \in 1..Len(bytes) |-> HexDigits[1 + (bytes[i] % 16)]]

\* Buffer.from(invoiceId, 'utf8').toString('hex').toUpperCase()
Hex(bytes) ==
    [i \in 1..(2 * Len(bytes)) |->
        LET b == bytes[(i + 1) \div 2]
        IN  HexDigits[1 + (IF i % 2 = 1 THEN b \div 16 ELSE b % 16)]]

\* crypto.createHash('sha256').update(invoiceId, 'utf8').digest('hex'): the
\* digest is kept as a term over its input, so two digests are equal only
\* when their inputs are
Sha256(bytes) == <<"sha256", bytes>>

\* the Payment x402Request builds for a challenge
Payment(id, amount) ==
    [Amount |-> amount, MemoData |-> Hex(id), InvoiceID |-> Sha256(id)]

\* the messages of the errors x402Request throws before a payment is sent,
\* and after
ChallengeErrors ==
    {"fetch failed", "Expected 402", "Missing PAYMENT-REQUIRED header",
     "No accepted payment terms", "No invoiceId"}

SigningErrors == {"autofill failed"}

RetryErrors == {"Payment rejected", "timeout"}

\* a catch outside the loop: the error ends the batch
FailEndpointAborts(error) ==
    /\ transactions' = Append(transactions,
                              [endpoint |-> endpoint, status |-> "FAILED",
                               amount_drops |-> Undef, error |-> error])
    /\ req' = Null
    /\ invoiceId' = <<>>
    /\ endpoint' = endpoint + 1
    /\ gpc' = "write"

\* the catch of the loop: the endpoint is recorded FAILED with the message
\* of the error, and the loop goes on
FailEndpoint(error) ==
    /\ transactions' = Append(transactions,
                              [endpoint |-> endpoint, status |-> "FAILED",
                               amount_drops |-> Undef, error |-> error])
    /\ req' = Null
    /\ invoiceId' = <<>>
    /\ endpoint' = endpoint + 1
    /\ gpc' = IF endpoint = NumEndpoints THEN "write" ELSE "challenge"

\* x402Request steps 1 and 2: the GET, and the terms of the 402 answer
AgentChallenge ==
    /\ gpc = "challenge"
    /\ \/ /\ \E amount \in ChallengeAmounts, id \in InvoiceIds :
                /\ req' = amount
                /\ invoiceId' = id
                /\ demanded' = Append(demanded, amount)
                /\ challenged' = Append(challenged, id)
          /\ gpc' = "pay"
          /\ UNCHANGED <<endpoint, transactions>>
       \/ /\ \E error \in ChallengeErrors : FailEndpoint(error)
          /\ demanded' = Append(demanded, Null)
          /\ challenged' = Append(challenged, <<>>)
    /\ UNCHANGED <<file, fetchVars, applyVars, restVars, agentEnv, prevCount, submitted,
                   agentExit>>

\* x402Request steps 3 to 5: the payment of the demanded amount is built,
\* signed and sent with the retried GET; amount_drops is what the merchant
\* reports, '?' when it reports none
AgentPay ==
    /\ gpc = "pay"
    /\ \/ /\ submitted' = Append(submitted,
                                 [endpoint |-> endpoint,
                                  amount |-> req,
                                  total |-> SumSubmitted(submitted) + req,
                                  tx |-> Payment(invoiceId, req),
                                  invoiceId |-> invoiceId])
          /\ \/ \E reported \in BOOLEAN :
                  /\ transactions' =
                       Append(transactions,
                              [endpoint |-> endpoint, status |-> "SUCCESS",
                               amount_drops |-> IF reported THEN req ELSE Undef,
                               error |-> SUndef])
                  /\ req' = Null
                  /\ invoiceId' = <<>>
                  /\ endpoint' = endpoint + 1
                  /\ gpc' = IF endpoint = NumEndpoints THEN "write"
                            ELSE "challenge"
             \/ \E error \in RetryErrors : FailEndpoint(error)
       \/ /\ \E error \in SigningErrors : FailEndpoint(error)
          /\ UNCHANGED submitted
    /\ UNCHANGED <<file, fetchVars, applyVars, restVars, agentEnv, prevCount, demanded,
                   challenged, agentExit>>

\* the x402_agent block is set in the document read again from disk
AgentWrite ==
    /\ gpc = "write"
    /\ IF file.exists
       THEN /\ file' =
                [file EXCEPT
                   !.keys = @ \cup {"x402_agent"},
                   !.x402_agent =
                       [payments_sent |->
                            prevCount
                            + Cardinality({i \in 1..Len(transactions) :
                                             transactions[i].status = "SUCCESS"}),
                        session_drops_spent |-> SumDrops(transactions),
                        transactions |->
                            [i \in 1..Len(transactions) |->
                                transactions[i].status]]]
            /\ gpc' = "done"
            /\ agentExit' = 0
       ELSE /\ gpc' = "exit"
            /\ agentExit' = 1
            /\ UNCHANGED file
    /\ UNCHANGED <<fetchVars, applyVars, restVars, agentEnv, endpoint, req, prevCount,
                   transactions, submitted, demanded, invoiceId, challenged>>

InitAgentSpec ==
    /\ file \in PrevFiles
    /\ InitFetch /\ ~env.FRED_API_KEY
    /\ InitApply
    /\ analysis = NoDocument
    /\ html = NoPage
    /\ InitAgent
    /\ InitRest

NextAgent == AgentStart \/ AgentChallenge \/ AgentPay \/ AgentWrite

SpecAgent == InitAgentSpec /\ [][NextAgent]_vars

(***************************************************************************)
(* Properties of x402-agent.js                                             *)
(***************************************************************************)
\* the drops signed and sent for the endpoints before endpoint e
SessionBefore(e) ==
    SumSubmitted(SelectSeq(submitted, LAMBDA p : p.endpoint < e))

\* the challenge of endpoint e breaks a guardrail
CapExceeded(e) ==
    /\ demanded[e] # Null
    /\ \/ demanded[e] > PerTxMax
       \/ SessionBefore(e) + demanded[e] > SessionCap

\* C10: no payment is signed or sent whose amount is over the per-transaction
\* cap or that takes the session total over the session cap, and an endpoint
\* whose challenge breaks a cap is recorded REJECTED.
C10_CapsEnforced ==
    /\ \A i \in 1..Len(submitted) :
          /\ submitted[i].amount <= PerTxMax
          /\ submitted[i].total <= SessionCap
    /\ \A e \in 1..Len(transactions) :
          CapExceeded(e) => transactions[e].status = "REJECTED"

\* the agent has answered a challenge over the per-transaction cap
C10_OverCapChallenge ==
    /\ gpc = "done"
    /\ \E e \in 1..Len(transactions) : CapExceeded(e)

\* the value of a hex digit, and the bytes a string of hex digits stands for
HexValue(d) == (CHOOSE k \in 1..16 : HexDigits[k] = d) - 1

Unhex(h) ==
    [i \in 1..(Len(h) \div 2) |->
        16 * HexValue(h[2 * i - 1]) + HexValue(h[2 * i])]

\* C15: every payment signed and sent answers the challenge of its own
\* request: its InvoiceID is the SHA-256 of the invoiceId that the 402
\* answer of that endpoint carried, its MemoData is the hex of the same
\* invoiceId, and the invoiceId of the PAYMENT-SIGNATURE payload is that
\* invoiceId.
C15_PaymentBoundToChallenge ==
    \A i \in 1..Len(submitted) :
        LET p == submitted[i]
            id == challenged[p.endpoint]
        IN  /\ id # <<>>
            /\ p.tx.InvoiceID = Sha256(id)
            /\ Len(p.tx.MemoData) = 2 * Len(id)
            /\ Unhex(p.tx.MemoData) = id
            /\ p.invoiceId = id

\* the batch has paid two challenges with different invoiceIds
C15_TwoChallengesPaid ==
    /\ gpc = "done"
    /\ \E i, j \in 1..Len(submitted) :
          /\ submitted[i].invoiceId # submitted[j].invoiceId
          /\ Len(submitted[j].invoiceId) > 1

\* the number of SUCCESS records
SuccessCount ==
    Cardinality({e \in 1..Len(transactions) : transactions[e].status = "SUCCESS"})

\* C16: each endpoint the loop has left has exactly one record, FAILED with
\* the message of the error when its flow failed; the loop goes on to the
\* next endpoint after a failure, so that after the batch there is one
\* record per endpoint; and the payments_sent written is the count read at
\* the start plus the number of SUCCESS records.
C16_FailureIsolated ==
    /\ Len(transactions) = endpoint - 1
    /\ Len(demanded) = (IF gpc = "pay" THEN endpoint ELSE endpoint - 1)
    /\ \A e \in 1..Len(transactions) :
          LET t == transactions[e]
          IN  /\ t.endpoint = e
              /\ t.status \in {"SUCCESS", "FAILED"}
              /\ t.status = "FAILED" <=> t.error # SUndef
              /\ demanded[e] = Null => t.status = "FAILED"
              /\ t.status = "SUCCESS" => \E i \in 1..Len(submitted) :
                                            submitted[i].endpoint = e
    /\ gpc \in {"write", "done"} => Len(transactions) = NumEndpoints
    /\ gpc = "done" =>
          /\ file.x402_agent.payments_sent = prevCount + SuccessCount
          /\ Len(file.x402_agent.transactions) = NumEndpoints

\* a batch whose first endpoint failed at the challenge and whose last was
\* rejected after payment, with a success between them, has been written
C16_MixedBatchWritten ==
    /\ gpc = "done" /\ prevCount > 0
    /\ transactions[1].error = "Expected 402"
    /\ transactions[2].status = "SUCCESS"
    /\ transactions[3].error = "Payment rejected"

(***************************************************************************)
(* x402-merchant.js: the paywalled routes.  A handler awaits the           *)
(* facilitator twice; other requests and the expiry timers run meanwhile.  *)
(***************************************************************************)
\* priceDrops of the routes
RoutePrices == {500, 1500}

\* how a facilitator call ends: the fetch times out, throws, answers with a
\* status that is not ok, answers ok with isValid / success false, or true
FacilitatorAnswers == {"timeout", "threw", "http", "no", "yes"}

\* a check of the HTTP status alone
AcceptedOk(a) == a \in {"no", "yes"}

\* res.ok and then verification.isValid, or settlement.success
Accepted(a) == a = "yes"

\* the status of a request whose facilitator call ended as a, not accepted
Refused(a) == IF a = "timeout" THEN 502 ELSE IF a = "threw" THEN 500 ELSE 402

\* a GET without PAYMENT-SIGNATURE: a new invoice is stored and 402 answered
MerchantChallenge ==
    /\ issued < MaxInvoices
    /\ \E price \in RoutePrices :
         pendingInvoices' = pendingInvoices \cup
                               {[id |-> issued + 1, amount |-> price]}
    /\ issued' = issued + 1
    /\ UNCHANGED <<file, fetchVars, applyVars, agentVars, calcVars, analysisVars, geckoVars, reqs>>

\* setTimeout(() => pendingInvoices.delete(invoiceId), 600_000)
InvoiceExpire ==
    /\ \E inv \in pendingInvoices : pendingInvoices' = pendingInvoices \ {inv}
    /\ UNCHANGED <<file, fetchVars, applyVars, agentVars, calcVars, analysisVars, geckoVars,
                   issued, reqs>>

\* a GET with PAYMENT-SIGNATURE, up to the /verify call: the header is
\* decoded and the invoice it names looked up; 0 is an id never issued.
\* required is the amount of the requirements found, which both facilitator
\* calls are sent
MerchantPaid ==
    /\ \E r \in 1..MaxRequests, price \in RoutePrices,
          named \in 0..MaxInvoices, decodes \in BOOLEAN :
         /\ reqs[r].step = "none"
         /\ \A q \in 1..(r - 1) : reqs[q].step # "none"
         /\ LET known == \E inv \in pendingInvoices : inv.id = named
                requirements == CHOOSE inv \in pendingInvoices : inv.id = named
                q == [reqs[r] EXCEPT !.route = price, !.invoice = named,
                                     !.decoded = decodes,
                                     !.known = decodes /\ known,
                                     !.required = IF decodes /\ known
                                                  THEN requirements.amount ELSE 0]
            IN  reqs' = [reqs EXCEPT ![r] =
                    IF ~decodes THEN [q EXCEPT !.step = "done", !.status = 400]
                    ELSE IF ~known
                    THEN [q EXCEPT !.step = "done", !.status = 402]
                    ELSE [q EXCEPT !.step = "verify"]]
    /\ UNCHANGED <<file, fetchVars, applyVars, agentVars, calcVars, analysisVars, geckoVars,
                   pendingInvoices, issued>>

\* the /verify call returns: the request is refused, or /settle is called
MerchantVerified ==
    /\ \E r \in 1..MaxRequests, a \in FacilitatorAnswers :
         /\ reqs[r].step = "verify"
         /\ LET q == [reqs[r] EXCEPT
                        !.calls = Append(@, [call |-> "verify", answer |-> a])]
            IN  reqs' = [reqs EXCEPT ![r] =
                    IF Accepted(a) THEN [q EXCEPT !.step = "settle"]
                    ELSE [q EXCEPT !.step = "done", !.status = Refused(a)]]
    /\ UNCHANGED <<file, fetchVars, applyVars, agentVars, calcVars, analysisVars, geckoVars,
                   pendingInvoices, issued>>

\* the /settle call returns: the request is refused, or the invoice is
\* deleted and the resource answered with 200, payment.amount_drops being
\* priceDrops of the route
MerchantSettled ==
    /\ \E r \in 1..MaxRequests, a \in FacilitatorAnswers :
         /\ reqs[r].step = "settle"
         /\ LET q == [reqs[r] EXCEPT
                        !.calls = Append(@, [call |-> "settle", answer |-> a])]
            IN  IF Accepted(a)
                THEN /\ reqs' = [reqs EXCEPT ![r] =
                                    [q EXCEPT !.step = "done", !.status = 200,
                                              !.amount_drops = q.route]]
                     /\ pendingInvoices' =
                            {inv \in pendingInvoices : inv.id # q.invoice}
                ELSE /\ reqs' = [reqs EXCEPT ![r] =
                                    [q EXCEPT !.step = "done",
                                              !.status = Refused(a)]]
                     /\ UNCHANGED pendingInvoices
    /\ UNCHANGED <<file, fetchVars, applyVars, agentVars, calcVars, analysisVars,
                   geckoVars, issued>>

InitMerchantSpec ==
    /\ file \in PrevFiles
    /\ InitFetch /\ ~env.FRED_API_KEY
    /\ InitApply
    /\ analysis = NoDocument
    /\ html = NoPage
    /\ InitAgent /\ agentEnv.X402_MAINNET_SEED
    /\ InitRest

NextMerchant ==
    \/ MerchantChallenge \/ InvoiceExpire \/ MerchantPaid \/ MerchantVerified
    \/ MerchantSettled

SpecMerchant == InitMerchantSpec /\ [][NextMerchant]_vars

(***************************************************************************)
(* Properties of x402-merchant.js                                          *)
(***************************************************************************)
\* C14: a request is answered 200 only after /verify returned valid and then
\* /settle returned success for the invoice it named; /settle is only called
\* after a valid /verify; a request that names an unknown or expired invoice
\* is answered 402 with no facilitator call.
C14_VerifyThenSettle ==
    \A r \in 1..MaxRequests :
        LET q == reqs[r]
        IN  /\ q.status = 200 =>
                  /\ q.known
                  /\ q.calls = <<[call |-> "verify", answer |-> "yes"],
                                 [call |-> "settle", answer |-> "yes"]>>
            /\ \A i \in 1..Len(q.calls) :
                  q.calls[i].call = "settle" =>
                      i = 2 /\ q.calls[1] = [call |-> "verify", answer |-> "yes"]
            /\ (q.step = "done" /\ q.decoded /\ ~q.known) =>
                  q.status = 402 /\ q.calls = <<>>

\* one request was answered 200 and another, naming the invoice after it
\* was used, 402
C14_PaidAndRefused ==
    \E r1, r2 \in 1..MaxRequests :
        /\ reqs[r1].status = 200
        /\ reqs[r2].step = "done" /\ reqs[r2].decoded /\ ~reqs[r2].known
        /\ reqs[r2].invoice = reqs[r1].invoice

(***************************************************************************)
(* The analysis step (Stage 3 analyst): dashboard-data.json and            *)
(* thesis-context.md are sent to the model, the answer is parsed and       *)
(* written to analysis-output.json.                                        *)
(***************************************************************************)
\* response.content[0].text: the text may open with a markdown fence, at its
\* start or after white space, and is a JSON object, JSON null, or prose
Fences == {"none", "json", "indented"}

ResponseTexts ==
    {[fence |-> f, kind |-> "object", doc |-> d] : f \in Fences, d \in Documents}
    \cup {[fence |-> f, kind |-> k, doc |-> NoDocument] :
            f \in Fences, k \in {"null", "prose"}}

\* a response without a content block
NoContent == [fence |-> "none", kind |-> "empty", doc |-> NoDocument]

\* raw.replace(/^```(?:json)?\s*/i, '').replace(/\s*```\s*$/, '').trim(): a
\* fence at the very start is removed with the closing one; behind leading
\* white space the opening fence stays
Cleaned(text) == IF text.fence = "json" THEN [text EXCEPT !.fence = "none"] ELSE text

\* JSON.parse(cleaned) returns
Parses(text) == Cleaned(text).fence = "none" /\ text.kind \in {"object", "null"}

\* a failure path that does not call sendTelegram
NoticeDropped(outcome) == notices

\* sendTelegram(text): nothing is posted without the token and chat id;
\* a failed POST is logged; the caller goes on in every case
Notice(outcome) ==
    Append(notices, IF anEnv.TELEGRAM THEN outcome ELSE "skipped")

NoticeOutcomes == {"posted", "failed"}

\* main(), steps 1 to 3: the inputs are loaded and the API key checked
AnalysisStart ==
    /\ npc = "start"
    /\ IF ~file.exists \/ "dashboard" \in disk.torn
       THEN /\ npc' = "exit" /\ analysisExit' = 1
            /\ UNCHANGED notices
       ELSE IF ~anEnv.thesis \/ ~anEnv.ANTHROPIC_API_KEY
       THEN /\ npc' = "exit" /\ analysisExit' = 1
            /\ \E o \in NoticeOutcomes : notices' = Notice(o)
       ELSE /\ npc' = "call"
            /\ UNCHANGED <<notices, analysisExit>>
    /\ UNCHANGED <<file, fetchVars, applyVars, agentVars, calcVars, merchantVars, geckoVars, anEnv,
                   modelCalls, raw, debugFile>>

\* main(), step 5: one attempt of client.messages.create; the first failure
\* is retried, the second ends the run
AnalysisCall ==
    /\ npc = "call"
    /\ modelCalls' = modelCalls + 1
    /\ \/ /\ raw' \in ResponseTexts \cup {NoContent}
          /\ npc' = "parse"
          /\ UNCHANGED <<notices, analysisExit>>
       \/ /\ modelCalls = 0
          /\ UNCHANGED <<npc, raw, notices, analysisExit>>
       \/ /\ modelCalls = 1
          /\ npc' = "exit" /\ analysisExit' = 1
          /\ \E o \in NoticeOutcomes : notices' = Notice(o)
          /\ UNCHANGED raw
    /\ UNCHANGED <<file, fetchVars, applyVars, agentVars, calcVars, merchantVars, geckoVars, anEnv,
                   debugFile>>

\* main(), from raw = response.content[0].text to the end: a response
\* without text and a JSON null end in a TypeError that main().catch turns
\* into exit 1; a text that does not parse is saved to the debug file
AnalysisParse ==
    /\ npc = "parse"
    /\ IF raw.kind = "empty" \/ (Parses(raw) /\ raw.kind = "null")
       THEN /\ npc' = "exit" /\ analysisExit' = 1
            /\ UNCHANGED <<analysis, disk, debugFile, notices>>
       ELSE IF ~Parses(raw)
       THEN /\ \E w \in WriteOutcomes :
                 /\ debugFile' = IF w = "written" THEN raw ELSE debugFile
                 /\ disk' = [disk EXCEPT
                               !.torn = IF w = "torn" THEN @ \cup {"debug"}
                                        ELSE IF w = "written" THEN @ \ {"debug"}
                                        ELSE @]
            /\ \E o \in NoticeOutcomes : notices' = Notice(o)
            /\ npc' = "exit" /\ analysisExit' = 1
            /\ UNCHANGED analysis
       ELSE \E w \in WriteOutcomes :
              /\ analysis' =
                   IF w = "written"
                   THEN [raw.doc EXCEPT !.timestamp = Coalesce(@, Tnow)]
                   ELSE analysis
              /\ disk' = [disk EXCEPT
                            !.torn = IF w = "torn" THEN @ \cup {"analysis"}
                                     ELSE IF w = "written" THEN @ \ {"analysis"}
                                     ELSE @]
              /\ IF w = "written"
                 THEN /\ \E o \in NoticeOutcomes : notices' = Notice(o)
                      /\ npc' = "done" /\ analysisExit' = 0
                 ELSE /\ npc' = "exit" /\ analysisExit' = 1
                      /\ UNCHANGED notices
              /\ UNCHANGED debugFile
    /\ UNCHANGED <<file, fetchVars, agentVars, calcVars, merchantVars, geckoVars,
                   anEnv, modelCalls, raw,
                   html, history, dashboardBackup, indexBackup, apc, dashboard,
                   changes, changelogEntries, changelog, applyRuns, applyExit,
                   lastDoc, reapply, insertedNow>>

InitAnalysisSpec ==
    /\ file \in PrevFiles
    /\ InitFetch /\ ~env.FRED_API_KEY
    /\ InitApply
    /\ analysis \in {NoDocument, BlankDocument}
    /\ html = NoPage
    /\ InitAgent /\ agentEnv.X402_MAINNET_SEED
    /\ InitMerchant
    /\ InitAnalysis
    /\ InitGecko
    /\ InitCalc
    /\ anEnv \in [thesis : BOOLEAN, ANTHROPIC_API_KEY : BOOLEAN, TELEGRAM : BOOLEAN]

NextAnalysis == AnalysisStart \/ AnalysisCall \/ AnalysisParse

SpecAnalysis == InitAnalysisSpec /\ [][NextAnalysis]_vars

(***************************************************************************)
(* Properties of the analysis step                                         *)
(***************************************************************************)
\* the response has a text that JSON.parse rejects
ParseFailure == npc = "parse" /\ raw.kind # "empty" /\ ~Parses(raw)

\* the step calls sendTelegram once, exits 1 and leaves analysis-output.json
\* as it was
AbortsNotified ==
    /\ Len(notices') = Len(notices) + 1
    /\ npc' = "exit" /\ analysisExit' = 1
    /\ analysis' = analysis
    /\ "analysis" \in disk'.torn <=> "analysis" \in disk.torn

\* analysis-output.json is written to only by the step that parsed the
\* response into an object
WrittenOnlyWhenParsed ==
    (\/ analysis' # analysis
     \/ ("analysis" \in disk'.torn) # ("analysis" \in disk.torn))
        => npc = "parse" /\ Parses(raw) /\ raw.kind = "object"

\* the second failed attempt of the API call ends the run, and there is no
\* third attempt
SecondFailureAborts ==
    /\ modelCalls' <= 2
    /\ (npc = "call" /\ modelCalls = 1 /\ npc' = "exit") => AbortsNotified

RetryDelayMs == 2000

\* how long a request can take, within the timeout of fetchJSON
Durations == {400, 1600}

\* the tasks that have not returned, and the time of the next event
GeckoPending == {t \in {"xrp", "rlusd"} : gecko[t].pc # "done"}

GeckoNext(t) ==
    /\ t \in GeckoPending
    /\ \A u \in GeckoPending : gecko[t].wake <= gecko[u].wake

\* the sleep of a task has ended: it issues its request
GeckoIssue ==
    \E t \in {"xrp", "rlusd"}, d \in Durations :
        /\ GeckoNext(t) /\ gecko[t].pc = "sleep"
        /\ gecko' = [gecko EXCEPT ![t].pc = "flight", ![t].wake = @ + d]
        /\ geckoLog' = Append(geckoLog, gecko[t].wake)
        /\ UNCHANGED <<file, fetchVars, applyVars, agentVars, calcVars, merchantVars,
                       analysisVars>>

\* a failed request: withRetry sleeps and tries once more; after the second
\* failure fetchXRP returns the fallback, and fetchRLUSD goes from the
\* primary id to the search, behind a sleep, and returns after that
GeckoFailed(t) ==
    LET g == gecko[t]
    IN  IF g.attempt = 0
        THEN [g EXCEPT !.pc = "sleep", !.wake = @ + RetryDelayMs, !.attempt = 1]
        ELSE IF t = "rlusd" /\ g.stage = "primary"
        THEN [pc |-> "sleep", wake |-> g.wake + COINGECKO_DELAY_MS, attempt |-> 0,
              stage |-> "search"]
        ELSE [g EXCEPT !.pc = "done"]

\* an answered request: of fetchRLUSD, a primary answer without the coin
\* leads to the search and a search that finds the coin to the price
\* request, each behind a sleep
GeckoAnswered(t, found) ==
    LET g == gecko[t]
    IN  IF t = "rlusd" /\ g.stage = "primary" /\ ~found
        THEN [pc |-> "sleep", wake |-> g.wake + COINGECKO_DELAY_MS, attempt |-> 0,
              stage |-> "search"]
        ELSE IF t = "rlusd" /\ g.stage = "search" /\ found
        THEN [pc |-> "sleep", wake |-> g.wake + COINGECKO_DELAY_MS, attempt |-> 0,
              stage |-> "price"]
        ELSE [g EXCEPT !.pc = "done"]

\* the request of a task ends
GeckoAnswer ==
    \E t \in {"xrp", "rlusd"} :
        /\ GeckoNext(t) /\ gecko[t].pc = "flight"
        /\ \/ gecko' = [gecko EXCEPT ![t] = GeckoFailed(t)]
           \/ \E found \in BOOLEAN :
                 gecko' = [gecko EXCEPT ![t] = GeckoAnswered(t, found)]
        /\ UNCHANGED <<file, fetchVars, applyVars, agentVars, calcVars, merchantVars,
                       analysisVars, geckoLog>>

InitGeckoSpec ==
    /\ file \in PrevFiles
    /\ InitFetch /\ ~env.FRED_API_KEY
    /\ InitApply
    /\ analysis = NoDocument
    /\ html = NoPage
    /\ InitAgent /\ agentEnv.X402_MAINNET_SEED
    /\ InitRest

NextGecko == GeckoIssue \/ GeckoAnswer

SpecGecko == InitGeckoSpec /\ [][NextGecko]_vars

\* C19: no two requests to CoinGecko are in flight at the same time, and
\* each request is issued at least COINGECKO_DELAY_MS after the one before.
C19_GeckoSequenced ==
    /\ Cardinality({t \in {"xrp", "rlusd"} : gecko[t].pc = "flight"}) <= 1
    /\ \A i \in 1..(Len(geckoLog) - 1) :
          geckoLog[i + 1] - geckoLog[i] >= COINGECKO_DELAY_MS

\* the request of fetchRLUSD was issued while that of fetchXRP was in flight
C19_BothInFlight ==
    /\ gecko.xrp.pc = "flight" /\ gecko.rlusd.pc = "flight"
    /\ geckoLog = <<0, COINGECKO_DELAY_MS>>

(***************************************************************************)
(* The scripts from their launch to the end of their precondition checks:  *)
(* the analysis step, apply-analysis.js and x402-agent.js, each with its   *)
(* inputs there or missing.                                                *)
(***************************************************************************)
InitStartupSpec ==
    /\ file \in PrevFiles
    /\ InitFetch /\ ~env.FRED_API_KEY
    /\ InitApply
    /\ analysis \in {NoDocument, BlankDocument}
    /\ html = NoPage
    /\ InitAgent
    /\ InitMerchant
    /\ InitAnalysis
    /\ InitGecko
    /\ InitCalc
    /\ anEnv \in [thesis : BOOLEAN, ANTHROPIC_API_KEY : BOOLEAN, TELEGRAM : BOOLEAN]

NextStartup == AnalysisStart \/ ApplyStart \/ AgentStart

SpecStartup == InitStartupSpec /\ [][NextStartup]_vars

\* the files the scripts keep, and the files a failed write has torn
Persisted ==
    <<file, analysis, html, history, dashboardBackup, indexBackup, changelog,
      debugFile, disk.saved, disk.torn>>

\* C20: a script started without a required input exits with code 1 in its
\* first step, and that step writes and backs up no file, calls the model
\* not at all and signs no payment: apply-analysis.js without
\* analysis-output.json or dashboard-data.json, the analysis step without
\* dashboard-data.json, thesis-context.md or ANTHROPIC_API_KEY, the agent
\* without X402_MAINNET_SEED.
C20_FatalPreconditionExits ==
    [][/\ (applyRuns' # applyRuns /\ (~analysis.present \/ ~file.exists))
          => /\ apc' = "failed" /\ applyExit' = 1
             /\ Persisted' = Persisted
       /\ (npc' # npc /\ npc = "start"
           /\ (~file.exists \/ ~anEnv.thesis \/ ~anEnv.ANTHROPIC_API_KEY))
          => /\ npc' = "exit" /\ analysisExit' = 1
             /\ modelCalls' = 0
             /\ Persisted' = Persisted
       /\ (gpc' # gpc /\ gpc = "start" /\ ~agentEnv.X402_MAINNET_SEED)
          => /\ gpc' = "exit" /\ agentExit' = 1
             /\ submitted' = <<>> /\ transactions' = <<>>
             /\ Persisted' = Persisted]_vars

\* the three scripts have each exited on a missing input
C20_AllThreeExited ==
    /\ apc = "failed" /\ ~analysis.present
    /\ npc = "exit" /\ file.exists /\ ~anEnv.thesis /\ Len(notices) = 1
    /\ gpc = "exit" /\ ~agentEnv.X402_MAINNET_SEED

(***************************************************************************)
(* The fee burn of fetchXRPLMetrics on its own, in the two forms the       *)
(* repository holds: from destroyed_coins of the XRPScan ledgers           *)
(* (scripts/fetch-data.js), and from total_coins of the oldest and the     *)
(* newest of six rippled ledgers (the rippled form of fetch-data.js).      *)
(***************************************************************************)
\* A decimal string is the sequence of its digits. A BigInt is kept in two
\* limbs: lo, the value of the last nine digits, and hi, that of the digits
\* before them.
Limb == 10^9

RECURSIVE DigitsValue(_)
DigitsValue(digits) ==
    IF digits = <<>> THEN 0
    ELSE 10 * DigitsValue(SubSeq(digits, 1, Len(digits) - 1)) + digits[Len(digits)]

\* BigInt(str)
BigInt(str) ==
    LET cut == IF Len(str) > 9 THEN Len(str) - 9 ELSE 0
    IN  [hi |-> DigitsValue(SubSeq(str, 1, cut)),
         lo |-> DigitsValue(SubSeq(str, cut + 1, Len(str)))]

\* a - b on BigInts whose difference fits a machine integer
BigSub(a, b) == (a.hi - b.hi) * Limb + (a.lo - b.lo)

\* Number(str): beyond 2^53 a
\* Number keeps 53 bits, and between 2^56 and 2^57 it is a multiple of 16
\* (ties to the even multiple)
NumberOf(str) ==
    LET b == BigInt(str)
        r == ((b.hi % 16) * (Limb % 16) + b.lo) % 16
        down == [hi |-> b.hi, lo |-> b.lo - r]
        even == (((b.hi % 32) * (Limb % 32) + b.lo - r) % 32) = 0
    IN  IF r < 8 \/ (r = 8 /\ even) THEN down ELSE [down EXCEPT !.lo = @ + 16]

\* the rippled form: null unless both total_coins are there and the older
\* exceeds the newer; the difference is over five ledgers
FeeBurnTotalCoins(oldestCoins, newestCoins) ==
    IF oldestCoins = <<>> \/ newestCoins = <<>> THEN Null
    ELSE LET burnDrops == BigSub(BigInt(oldestCoins), BigInt(newestCoins))
         IN  IF burnDrops > 0 THEN RoundDiv(burnDrops, 500) ELSE Null

Nines(n) == [i \in 1..n |-> 9]

\* total_coins of a ledger header: 99999999999999999, 99999999999999898,
\* 99999999994999999, 100000000000000000, or none (undefined and the empty
\* string are both falsy)
TotalCoins ==
    {Nines(17), Nines(14) \o <<8, 9, 8>>, Nines(10) \o <<4>> \o Nines(6),
     <<1>> \o [i \in 1..17 |-> 0], <<>>}

\* destroyed_coins of the ledgers XRPScan returned
DestroyedCoins == {<<0>>, <<5000>>, <<5000, 15000>>, <<Undef, 120>>}

InitFeeBurn ==
    calc \in [fn : {"feeBurn"}, oldestCoins : TotalCoins, newestCoins : TotalCoins,
              destroyed : DestroyedCoins, done : {FALSE}, rippled : {Null},
              xrpscan : {Null}]

FeeBurn ==
    /\ calc.fn = "feeBurn" /\ ~calc.done
    /\ calc' = [calc EXCEPT !.done = TRUE,
                            !.rippled = FeeBurnTotalCoins(calc.oldestCoins, calc.newestCoins),
                            !.xrpscan = feeBurn(calc.destroyed)]
    /\ UNCHANGED <<file, fetchVars, applyVars, agentVars, merchantVars, analysisVars,
                   geckoVars>>

InitFeeBurnSpec ==
    /\ file \in PrevFiles
    /\ InitFetch /\ ~env.FRED_API_KEY
    /\ InitApply
    /\ analysis = NoDocument
    /\ html = NoPage
    /\ InitAgent /\ agentEnv.X402_MAINNET_SEED
    /\ InitMerchant
    /\ InitAnalysis
    /\ InitGecko
    /\ anEnv = [thesis |-> TRUE, ANTHROPIC_API_KEY |-> TRUE, TELEGRAM |-> TRUE]
    /\ InitFeeBurn

NextFeeBurn == FeeBurn

SpecFeeBurn == InitFeeBurnSpec /\ [][NextFeeBurn]_vars

\* the exact difference of two digit strings of equal length that differ in
\* their last three digits only
LastThree(str) == DigitsValue(SubSeq(str, Len(str) - 2, Len(str)))

\* C21: the fee burn is null, never a number that is not positive, and where
\* the rippled form reports a number it is the exact difference of the two
\* total_coins over five ledgers.
C21_BurnExactAndPositive ==
    calc.fn = "feeBurn" /\ calc.done =>
        /\ calc.xrpscan = Null \/ calc.xrpscan > 0
        /\ calc.oldestCoins # <<>> /\ calc.newestCoins # <<>> =>
              LET d == BigSub(BigInt(calc.oldestCoins), BigInt(calc.newestCoins))
              IN  /\ d <= 0 => calc.rippled = Null
                  /\ d >= 500 => calc.rippled = RoundDiv(d, 500)

\* the ledgers XRPScan returned burned 5000 and 15000 drops, and the fee burn
\* written is -0.0100 XRP per ledger
C21_NegativeBurn ==
    /\ calc.fn = "feeBurn" /\ calc.done
    /\ calc.destroyed = <<5000, 15000>>
    /\ calc.xrpscan = -100

\* the rippled form on 99999999999999999 and 99999999999999898: the
\* difference is 101 drops exactly, where Numbers would give 96
C21_ExactBeyond2to53 ==
    /\ calc.fn = "feeBurn" /\ calc.done
    /\ calc.oldestCoins = Nines(17) /\ calc.newestCoins = Nines(14) \o <<8, 9, 8>>
    /\ BigSub(BigInt(calc.oldestCoins), BigInt(calc.newestCoins)) = 101
    /\ LastThree(calc.oldestCoins) - LastThree(calc.newestCoins) = 101
    /\ BigSub(NumberOf(calc.oldestCoins), NumberOf(calc.newestCoins)) = 96

(***************************************************************************)
(* The adapters with more than one endpoint, each on its own: the          *)
(* endpoints it contacts, in order, those it passes over for want of a     *)
(* key, and whether it returns fetched data or the previous record.        *)
(***************************************************************************)
Contact(name, ok) == [endpoint |-> name, ok |-> ok]

\* the chain of each adapter
Chains ==
    [usd_jpy |-> <<"alphavantage", "frankfurter">>,
     fred_jpn_10y |-> <<"twelvedata", "fred">>,
     news |-> <<"cryptopanic", "newsdata">>,
     rlusd |-> <<"direct", "search">>,
     xrpl_metrics |-> <<"xrpscan", "onthedex">>]

\* fetchUSDJPY: Alpha Vantage inside if (avKey), its catch only warns;
\* Frankfurter follows unless Alpha Vantage returned
contactsUSDJPY(avKey, r1, r2) ==
    LET av == Contact("alphavantage",
                      r1.ok /\ r1.att.body.series /\ ~BadRate(r1.att.body.rate))
        fx == Contact("frankfurter", r2.ok /\ ~BadRate(r2.att.body.rate))
    IN  IF ~avKey THEN <<fx>> ELSE IF av.ok THEN <<av>> ELSE <<av, fx>>

\* fetchJPN10Y: Twelve Data inside if (tdKey); fetchFRED follows unless
\* Twelve Data returned, and contacts FRED only with FRED_API_KEY set
contactsJPN10Y(tdKey, r, key, rFRED) ==
    LET td == Contact("twelvedata",
                      r.ok /\ r.att.body.values > 0 /\ r.att.body.close # NaNv)
        fred == IF key THEN <<Contact("fred", rFRED.ok /\ rFRED.att.body.obs)>>
                ELSE <<>>
    IN  IF ~tdKey THEN fred ELSE IF td.ok THEN <<td>> ELSE <<td>> \o fred

\* fetchNews: CryptoPanic inside if (cpKey), NewsData.io inside if (ndKey)
contactsNews(cpKey, ndKey, r1, r2) ==
    LET cp == Contact("cryptopanic", r1.ok /\ r1.att.body.results > 0)
        nd == IF ndKey
              THEN <<Contact("newsdata", r2.ok /\ r2.att.body.results > 0)>>
              ELSE <<>>
    IN  IF ~cpKey THEN nd ELSE IF cp.ok THEN <<cp>> ELSE <<cp>> \o nd

\* fetchRLUSD: the direct id; in its catch the search, and the price of the
\* coin the search found
contactsRLUSD(r1, r2, r3) ==
    LET direct == Contact("direct", r1.ok /\ r1.att.body.entry)
        search == Contact("search", r2.ok /\ r2.att.body.found /\ r3.ok)
    IN  IF direct.ok THEN <<direct>> ELSE <<direct, search>>

\* fetchXRPLMetrics: XRPScan; OnTheDex inside if (xrpscanBlocked), which the
\* catch sets when the message of the XRPScan error holds 403
contactsXRPL(r1, r2, first, r3) ==
    LET e == IF ~r1.ok /\ ~r2.ok THEN (IF first = 1 THEN r1.att ELSE r2.att)
             ELSE IF ~r1.ok THEN r1.att ELSE r2.att
        xrpscan == Contact("xrpscan", r1.ok /\ r2.ok)
        onthedex == Contact("onthedex", r3.ok /\ r3.att.body.pairs > 0)
    IN  IF xrpscan.ok \/ e.kind # "403" THEN <<xrpscan>> ELSE <<xrpscan, onthedex>>

\* a call the adapter has no use for
NoCall == [ok |-> FALSE, att |-> Err, calls |-> 0]

ChainRuns(adapter, keys1, keys2, c1, c2, c3, firsts) ==
    [fn : {"chain"}, adapter : {adapter}, k1 : keys1, k2 : keys2, r1 : c1, r2 : c2,
     r3 : c3, first : firsts, done : {FALSE}, contacts : {<<>>}, passed : {{}},
     health : {"none"}]

InitChain ==
    calc \in ChainRuns("usd_jpy", BOOLEAN, {TRUE}, Calls(AlphaVantageAttempts),
                       Calls(FrankfurterAttempts), {NoCall}, {1})
             \cup ChainRuns("fred_jpn_10y", BOOLEAN, BOOLEAN, Calls(TwelveDataAttempts),
                            Calls(FredAttempts), {NoCall}, {1})
             \cup ChainRuns("news", BOOLEAN, BOOLEAN, Calls(CryptoPanicAttempts),
                            Calls(NewsDataAttempts), {NoCall}, {1})
             \cup ChainRuns("rlusd", {TRUE}, {TRUE}, Calls(RlusdAttempts),
                            Calls(SearchAttempts), Calls(RlusdAttempts), {1})
             \cup ChainRuns("xrpl_metrics", {TRUE}, {TRUE}, Calls(TokensAttempts),
                            Calls(LedgerAttempts), Calls(OnTheDexAttempts), {1, 2})

\* one adapter runs against the previous file
RunChain ==
    /\ calc.fn = "chain" /\ ~calc.done
    /\ LET c == calc
           a == CASE c.adapter = "usd_jpy" -> fetchUSDJPY(file, c.k1, c.r1, c.r2)
                  [] c.adapter = "fred_jpn_10y" ->
                         fetchJPN10Y(file.macro.jpn_10y, c.k1, c.r1, c.k2, c.r2)
                  [] c.adapter = "news" -> fetchNews(file, c.k1, c.k2, c.r1, c.r2)
                  [] c.adapter = "rlusd" -> fetchRLUSD(file, c.r1, c.r2, c.r3)
                  [] OTHER -> fetchXRPLMetrics(file, c.r1, c.r2, c.first, c.r3)
           contacts ==
                CASE c.adapter = "usd_jpy" -> contactsUSDJPY(c.k1, c.r1, c.r2)
                  [] c.adapter = "fred_jpn_10y" -> contactsJPN10Y(c.k1, c.r1, c.k2, c.r2)
                  [] c.adapter = "news" -> contactsNews(c.k1, c.k2, c.r1, c.r2)
                  [] c.adapter = "rlusd" -> contactsRLUSD(c.r1, c.r2, c.r3)
                  [] OTHER -> contactsXRPL(c.r1, c.r2, c.first, c.r3)
           chain == Chains[c.adapter]
       IN  calc' = [c EXCEPT !.done = TRUE, !.contacts = contacts, !.health = a.health,
                             !.passed = (IF c.k1 THEN {} ELSE {chain[1]})
                                            \cup (IF c.k2 THEN {} ELSE {chain[2]})]
    /\ UNCHANGED <<file, fetchVars, applyVars, agentVars, merchantVars, analysisVars,
                   geckoVars>>

InitChainSpec ==
    /\ file \in PrevFiles
    /\ InitFetch /\ ~env.FRED_API_KEY
    /\ InitApply
    /\ analysis = NoDocument
    /\ html = NoPage
    /\ InitAgent /\ agentEnv.X402_MAINNET_SEED
    /\ InitMerchant
    /\ InitAnalysis
    /\ InitGecko
    /\ anEnv = [thesis |-> TRUE, ANTHROPIC_API_KEY |-> TRUE, TELEGRAM |-> TRUE]
    /\ InitChain

NextChain == RunChain

SpecChain == InitChainSpec /\ [][NextChain]_vars

\* the endpoints of a sequence of contacts
Contacted(contacts) == {contacts[i].endpoint : i \in 1..Len(contacts)}

\* every contact but the last failed, and the contacts follow the chain
InChainOrder(contacts, chain) ==
    /\ \A i \in 1..(Len(contacts) - 1) : ~contacts[i].ok
    /\ \A i, j \in 1..Len(contacts) :
          i < j => \E m, n \in 1..Len(chain) :
                      m < n /\ chain[m] = contacts[i].endpoint
                            /\ chain[n] = contacts[j].endpoint

\* C22: an endpoint of a chain is contacted only after every earlier one
\* failed or was passed over, and an adapter that returns the previous record
\* has contacted or passed over every endpoint of its chain.
C22_ChainTriedInOrder ==
    calc.fn = "chain" /\ calc.done =>
        LET chain == Chains[calc.adapter]
        IN  /\ InChainOrder(calc.contacts, chain)
            /\ \A n \in 1..Len(chain) :
                  chain[n] \in Contacted(calc.contacts) =>
                      \A m \in 1..(n - 1) :
                          chain[m] \in Contacted(calc.contacts) \cup calc.passed
            /\ calc.health # "ok" =>
                  \A n \in 1..Len(chain) :
                      chain[n] \in Contacted(calc.contacts) \cup calc.passed

\* XRPScan failed with an error that holds no 403: fetchXRPLMetrics returned
\* the previous record and OnTheDex was never contacted
C22_OnTheDexNotTried ==
    /\ calc.fn = "chain" /\ calc.done /\ calc.adapter = "xrpl_metrics"
    /\ calc.contacts = <<Contact("xrpscan", FALSE)>>
    /\ calc.health = "fail"

(***************************************************************************)
(* withRetry on its own, step by step: the for loop, the sleep before a    *)
(* retry, the call of fn.  plan is how each call of fn would end.          *)
(***************************************************************************)
\* the largest retries withRetry is run with
MaxRetries == 2

\* an error fn throws, and the ways a call of fn can end
Fail(message) == [kind |-> "err", body |-> <<message>>]

FnOutcomes == {Fail("first"), Fail("second"), Ok(<<7>>), Ok(<<8>>)}

\* attempt < retries: one call short
LoopStopsEarly(attempt, retries) == attempt < retries

\* the condition of the for loop: attempt <= retries
LoopContinues(attempt, retries) == attempt <= retries

InitRetry ==
    calc \in [fn : {"withRetry"}, retries : 0..MaxRetries,
              plan : [1..(MaxRetries + 1) -> FnOutcomes],
              attempt : {0}, lastErr : {Fail(SUndef)}, invoked : {0}, slept : {0},
              pc : {"for"}, result : {Fail(SUndef)}]

\* the head of the loop: leave it and throw lastErr, or go on to the call,
\* by way of the sleep when this is a retry
RetryLoop ==
    /\ calc.fn = "withRetry" /\ calc.pc = "for"
    /\ calc' = IF ~LoopContinues(calc.attempt, calc.retries)
               THEN [calc EXCEPT !.pc = "thrown", !.result = calc.lastErr]
               ELSE [calc EXCEPT !.pc = IF calc.attempt > 0 THEN "sleep" ELSE "call"]
    /\ UNCHANGED <<file, fetchVars, applyVars, agentVars, merchantVars, analysisVars,
                   geckoVars>>

\* await sleep(delayMs)
RetrySleep ==
    /\ calc.fn = "withRetry" /\ calc.pc = "sleep"
    /\ calc' = [calc EXCEPT !.pc = "call", !.slept = @ + 1]
    /\ UNCHANGED <<file, fetchVars, applyVars, agentVars, merchantVars, analysisVars,
                   geckoVars>>

\* return await fn(), or the catch and attempt++
RetryCall ==
    /\ calc.fn = "withRetry" /\ calc.pc = "call"
    /\ LET outcome == calc.plan[calc.invoked + 1]
       IN  calc' = IF IsErr(outcome)
                   THEN [calc EXCEPT !.invoked = @ + 1, !.lastErr = outcome,
                                     !.attempt = @ + 1, !.pc = "for"]
                   ELSE [calc EXCEPT !.invoked = @ + 1, !.result = outcome,
                                     !.pc = "returned"]
    /\ UNCHANGED <<file, fetchVars, applyVars, agentVars, merchantVars, analysisVars,
                   geckoVars>>

InitRetrySpec ==
    /\ file \in PrevFiles
    /\ InitFetch /\ ~env.FRED_API_KEY
    /\ InitApply
    /\ analysis = NoDocument
    /\ html = NoPage
    /\ InitAgent /\ agentEnv.X402_MAINNET_SEED
    /\ InitMerchant
    /\ InitAnalysis
    /\ InitGecko
    /\ anEnv = [thesis |-> TRUE, ANTHROPIC_API_KEY |-> TRUE, TELEGRAM |-> TRUE]
    /\ InitRetry

NextRetry == RetryLoop \/ RetrySleep \/ RetryCall

\* the timer of sleep fires and the promise of fn settles (fetchJSON aborts
\* its request after a timeout), so a step that can be taken is taken
SpecRetry == InitRetrySpec /\ [][NextRetry]_vars /\ WF_vars(NextRetry)

\* the calls of fn made so far all failed
AllFailed(n) == \A i \in 1..n : IsErr(calc.plan[i])

RetrySafe ==
    calc.fn = "withRetry" =>
        /\ calc.invoked <= calc.retries + 1
        /\ calc.pc = "returned" =>
              /\ ~IsErr(calc.plan[calc.invoked]) /\ AllFailed(calc.invoked - 1)
              /\ calc.result = calc.plan[calc.invoked]
        /\ calc.pc = "thrown" =>
              /\ calc.invoked = calc.retries + 1 /\ AllFailed(calc.invoked)
              /\ calc.result = calc.plan[calc.invoked]
        /\ calc.pc \notin {"returned", "thrown"} => AllFailed(calc.invoked)

RetryDone == calc.fn = "withRetry" /\ calc.pc \in {"returned", "thrown"}

\* C23: withRetry calls fn at most retries + 1 times and never after a call
\* succeeded; it returns the result of the first call that succeeded, throws
\* the error of the last call only when all retries + 1 calls failed, and
\* always ends.
C23_RetryBoundedAndEnds == []RetrySafe /\ <>RetryDone

\* with the default retries, two calls failed and the error of the second was
\* thrown after one sleep
C23_ThrownAfterTwo ==
    /\ calc.fn = "withRetry" /\ calc.pc = "thrown" /\ calc.retries = DefaultRetries
    /\ calc.invoked = 2 /\ calc.slept = 1 /\ calc.result = Fail("second")
    /\ calc.plan[1] = Fail("first")

\* the loop and the operator withRetry agree on what is returned or thrown
\* and on the number of calls
RetryAgrees ==
    RetryDone =>
        LET r == RetryFrom(calc.plan, 1, calc.retries)
        IN  /\ r.ok = (calc.pc = "returned")
            /\ r.att = calc.result
            /\ r.calls = calc.invoked

(***************************************************************************)
(* The health ledger of a fetch cycle                                      *)
(***************************************************************************)
\* the slot the adapter of a step marks
SlotOf(step) ==
    CASE step = "btc_etf" -> "ibit"
      [] step = "eth_etf" -> "etha"
      [] step \in {"jpn_10y", "brent", "us_10y"} -> "fred_" \o step
      [] OTHER -> step

\* the ledger written has the thirteen slots, each ok, fail or skip
LedgerComplete ==
    Written =>
        /\ DOMAIN file.health_check = HealthKeys /\ Cardinality(HealthKeys) = 13
        /\ \A k \in HealthKeys : file.health_check[k] \in {"ok", "fail", "skip"}
        /\ file.health_check = fetchHealth

\* the adapter that ran last marked 'ok' exactly when it returned a record
\* built from a response, and returned the previous record otherwise
LedgerTruthful ==
    up.key # "none" =>
        /\ fetchHealth[up.key] \in {"ok", "fail", "skip"}
        /\ (fetchHealth[up.key] = "ok") = up.fresh
        /\ ~up.fresh => ReturnedBy(up.key) = PreviousOf(up.key)

\* a step changes no slot but the one of its adapter
OwnSlotOnly ==
    \A k \in HealthKeys : fetchHealth'[k] # fetchHealth[k] => k = SlotOf(pc)

\* C24: the health ledger a fetch cycle writes has one entry for each of the
\* thirteen slots, each ok, fail or skip and written by its own adapter only:
\* 'ok' exactly when the adapter returned fetched data, 'fail' or 'skip'
\* exactly when it returned the fallback.
C24_LedgerComplete == [][LedgerComplete' /\ LedgerTruthful' /\ OwnSlotOnly]_vars

\* a cycle was written whose ledger holds all three statuses
C24_AllStatusesWritten ==
    /\ Written
    /\ \A st \in {"ok", "fail", "skip"} :
          \E k \in HealthKeys : file.health_check[k] = st

(***************************************************************************)
(* One iShares record over a sequence of fetch cycles, starting with no    *)
(* state file: each cycle runs fetchBTCETF against the record the cycle    *)
(* before it wrote.                                                        *)
(***************************************************************************)
\* the cycles a sequence has at most
MaxCycles == 16

\* the holdings CSV: the as-of date, Shares Outstanding and the asset row.
\* The fund reports 10 shares on day 1 and 12 on day 2; the CSV of day 2 may
\* also report 0 shares.
CsvAttempts ==
    {Err, Ok([asof |-> 1, shares |-> 10, aum |-> 120]),
     Ok([asof |-> 2, shares |-> 12, aum |-> 120]),
     Ok([asof |-> 2, shares |-> 0, aum |-> 120])}

InitIshares ==
    calc = [fn |-> "ishares", record |-> IsharesDefault("IBIT"), written |-> FALSE,
            cycles |-> 0, fresh |-> FALSE]

\* a fetch cycle, as far as btc_etf goes: loadExisting, fetchBTCETF, and the
\* record written with JSON.stringify
IsharesCycle ==
    /\ calc.fn = "ishares" /\ calc.cycles < MaxCycles
    /\ \E r \in Calls(CsvAttempts) :
          LET ex == [EmptyDoc EXCEPT
                         !.keys = IF calc.written THEN OutputKeys ELSE {},
                         !.btc_etf = calc.record]
              a == fetchBTCETF(ex, r)
          IN  calc' = [calc EXCEPT !.record = JsonIshares(a.val), !.written = TRUE,
                                   !.cycles = @ + 1, !.fresh = a.fresh]
    /\ UNCHANGED <<file, fetchVars, applyVars, agentVars, merchantVars, analysisVars,
                   geckoVars>>

InitIsharesSpec ==
    /\ file \in PrevFiles
    /\ InitFetch /\ ~env.FRED_API_KEY
    /\ InitApply
    /\ analysis = NoDocument
    /\ html = NoPage
    /\ InitAgent /\ agentEnv.X402_MAINNET_SEED
    /\ InitMerchant
    /\ InitAnalysis
    /\ InitGecko
    /\ anEnv = [thesis |-> TRUE, ANTHROPIC_API_KEY |-> TRUE, TELEGRAM |-> TRUE]
    /\ InitIshares

NextIshares == IsharesCycle

SpecIshares == InitIsharesSpec /\ [][NextIshares]_vars

\* the flows of a history added up, an entry without a number counting 0
RECURSIVE FlowTotal(_)
FlowTotal(h) ==
    IF h = <<>> THEN 0
    ELSE FlowTotal(SubSeq(h, 1, Len(h) - 1))
             + (IF h[Len(h)].flow = Null THEN 0 ELSE h[Len(h)].flow)

HistoryCapped ==
    calc.fn = "ishares" => Len(calc.record.daily_flow_history) <= HistoryCap

WeeklyIsSum ==
    calc.fn = "ishares" /\ calc.written =>
        LET h == calc.record.daily_flow_history
        IN  calc.record.weekly_net_flow =
                IF h = <<>> THEN Null ELSE FlowTotal(LastN(h, 5))

\* the history changes only by one entry appended (the oldest dropped beyond
\* the cap), in a cycle whose fetch succeeded, whose date is new and whose
\* previous shares_outstanding is known
AppendedOnlyOnAdvance ==
    LET h == calc.record.daily_flow_history
        g == calc'.record.daily_flow_history
    IN  calc.fn = "ishares" /\ g # h =>
            /\ calc'.fresh
            /\ calc'.record.as_of_date # calc.record.as_of_date
            /\ calc.record.shares_outstanding # Null
            /\ \/ g = Append(h, g[Len(g)])
               \/ Len(h) = HistoryCap /\ g = Append(Tail(h), g[Len(g)])

\* C25: over any sequence of cycles from an empty state the history of an
\* iShares record has at most 14 entries, gains an entry only in a cycle
\* whose fetch succeeded with a new as_of_date and a known previous
\* shares_outstanding, is unchanged in every other cycle, and
\* weekly_net_flow is the sum of its last five entries, null when it is empty.
C25_FlowHistory == [][HistoryCapped' /\ WeeklyIsSum' /\ AppendedOnlyOnAdvance]_vars

\* the CSV reported 0 shares on a new date: the entry appended has no flow
\* and weekly_net_flow is written null over a history that is not empty
C25_NullWeeklyOverHistory ==
    /\ calc.fn = "ishares" /\ calc.fresh
    /\ calc.record.daily_flow_history # <<>>
    /\ calc.record.weekly_net_flow = Null
    /\ calc.record.shares_outstanding = 0

\* the history is full and its oldest entry has been dropped
C25_HistoryFull ==
    /\ calc.fn = "ishares" /\ calc.cycles = MaxCycles
    /\ Len(calc.record.daily_flow_history) = HistoryCap

(***************************************************************************)
(* buildKillSwitches on its own, over manual fields and live metrics that  *)
(* are missing, below, at and above the targets.                           *)
(***************************************************************************)
\* manual.clarity_act_status: missing, or one of these statuses
ClarityStatuses == {SUndef, SNull, "Pending", "Passed", "PASSED House", "passed"}

InitKillSwitches ==
    calc \in [fn : {"buildKillSwitches"},
              manual : [odl_volume_annualized : {Null, 10, 25},
                        xrp_etf_aum : {Null, 4},
                        rlusd_circulation : {Null, 2, 6},
                        permissioned_dex_institutions : {Null, 3, 5},
                        clarity_act_status : ClarityStatuses],
              market_cap : {Null, Undef, 3, 5},
              total_aum : {Null, 1, 7},
              done : {FALSE}, out : {KSAbsent}]

\* kill_switches: buildKillSwitches(manual, rlusd, etf)
BuildKillSwitches ==
    /\ calc.fn = "buildKillSwitches" /\ ~calc.done
    /\ calc' = [calc EXCEPT
                   !.done = TRUE,
                   !.out = buildKillSwitches(calc.manual,
                                             [market_cap |-> calc.market_cap],
                                             [total_aum |-> calc.total_aum])]
    /\ UNCHANGED <<file, fetchVars, applyVars, agentVars, merchantVars, analysisVars,
                   geckoVars>>

InitKillSwitchesSpec ==
    /\ file \in PrevFiles
    /\ InitFetch /\ ~env.FRED_API_KEY
    /\ InitApply
    /\ analysis = NoDocument
    /\ html = NoPage
    /\ InitAgent /\ agentEnv.X402_MAINNET_SEED
    /\ InitMerchant
    /\ InitAnalysis
    /\ InitGecko
    /\ anEnv = [thesis |-> TRUE, ANTHROPIC_API_KEY |-> TRUE, TELEGRAM |-> TRUE]
    /\ InitKillSwitches

NextKillSwitches == BuildKillSwitches

SpecKillSwitches == InitKillSwitchesSpec /\ [][NextKillSwitches]_vars

\* the live metric when it is there, the manual field otherwise
LiveOrManual(live, manual) == IF live \in {Null, Undef} THEN manual ELSE live

\* what a numeric kill switch is to show for a current value and a target
Classified(entry, current, target) ==
    /\ entry.current = current
    /\ entry.status = IF current = Null THEN "NEEDS_DATA"
                      ELSE IF current >= target THEN "HIT" ELSE "TRACKING"
    /\ entry.pct_complete = IF current = Null THEN Null
                            ELSE (200 * current + target) \div (2 * target)

\* C26: each numeric kill switch is NEEDS_DATA exactly when its current value
\* is null, HIT exactly when current >= target, TRACKING otherwise, with
\* pct_complete the rounded percentage of the target; rlusd_circulation and
\* xrp_etf_aum take the live metric when there is one and the manual field
\* otherwise; clarity_act is HIT exactly when the manual status holds
\* 'passed' in any case, PENDING otherwise.
C26_KillSwitchesClassified ==
    calc.fn = "buildKillSwitches" /\ calc.done =>
        /\ Classified(calc.out.odl_volume, calc.manual.odl_volume_annualized, 25)
        /\ Classified(calc.out.rlusd_circulation,
                      LiveOrManual(calc.market_cap, calc.manual.rlusd_circulation), 5)
        /\ Classified(calc.out.xrp_etf_aum,
                      LiveOrManual(calc.total_aum, calc.manual.xrp_etf_aum), 5)
        /\ Classified(calc.out.permissioned_dex_adoption,
                      calc.manual.permissioned_dex_institutions, 5)
        /\ calc.out.clarity_act.status =
               IF calc.manual.clarity_act_status \in {"Passed", "PASSED House", "passed"}
               THEN "HIT" ELSE "PENDING"

\* three institutions are live on the permissioned DEX: the entry is
\* TRACKING and carries no pct_complete
C26_DexWithoutPct ==
    /\ calc.fn = "buildKillSwitches" /\ calc.done
    /\ calc.manual.permissioned_dex_institutions = 3
    /\ calc.out.permissioned_dex_adoption.status = "TRACKING"
    /\ calc.out.permissioned_dex_adoption.pct_complete = Undef

\* the three switches with a pct_complete, and clarity_act, are as the
\* sentence has them
KillSwitchesButDexPct ==
    calc.fn = "buildKillSwitches" /\ calc.done =>
        /\ Classified(calc.out.odl_volume, calc.manual.odl_volume_annualized, 25)
        /\ Classified(calc.out.rlusd_circulation,
                      LiveOrManual(calc.market_cap, calc.manual.rlusd_circulation), 5)
        /\ Classified(calc.out.xrp_etf_aum,
                      LiveOrManual(calc.total_aum, calc.manual.xrp_etf_aum), 5)
        /\ Classified([calc.out.permissioned_dex_adoption EXCEPT !.pct_complete =
                          IF calc.manual.permissioned_dex_institutions = Null THEN Null
                          ELSE 20 * calc.manual.permissioned_dex_institutions],
                      calc.manual.permissioned_dex_institutions, 5)
        /\ calc.out.clarity_act.status =
               IF calc.manual.clarity_act_status \in {"Passed", "PASSED House", "passed"}
               THEN "HIT" ELSE "PENDING"

(***************************************************************************)
(* Invoices and routes of x402-merchant.js                                 *)
(***************************************************************************)
\* C27: a route answers 200 only against an invoice of its own: the amount
\* verified and settled is the price of the route, and payment.amount_drops
\* is the amount settled.
C27_InvoiceOfOwnRoute ==
    \A r \in 1..MaxRequests :
        reqs[r].status = 200 =>
            /\ reqs[r].required = reqs[r].route
            /\ reqs[r].amount_drops = reqs[r].required

\* the route priced 1500 drops answered 200 against an invoice of 500 drops
\* and reported 1500 drops paid
C27_CheapInvoiceUnlocks ==
    \E r \in 1..MaxRequests :
        /\ reqs[r].status = 200 /\ reqs[r].route = 1500
        /\ reqs[r].required = 500 /\ reqs[r].amount_drops = 1500

\* the requests that named an invoice and reached a call, or a status
SettledWith(id) ==
    {r \in 1..MaxRequests :
        /\ reqs[r].invoice = id
        /\ \E i \in 1..Len(reqs[r].calls) : reqs[r].calls[i].call = "settle"}

GrantedWith(id) ==
    {r \in 1..MaxRequests : reqs[r].invoice = id /\ reqs[r].status = 200}

\* C28: an invoice grants access at most once: of the requests that name it,
\* at most one reaches /settle and at most one is answered 200.
C28_InvoiceUsedOnce ==
    \A id \in 1..MaxInvoices :
        /\ Cardinality(SettledWith(id)) <= 1
        /\ Cardinality(GrantedWith(id)) <= 1

\* two requests named the same invoice while it was pending; both were
\* verified, settled and answered 200
C28_InvoiceUsedTwice ==
    \E id \in 1..MaxInvoices :
        /\ Cardinality(GrantedWith(id)) = 2
        /\ \A inv \in pendingInvoices : inv.id # id

(***************************************************************************)
(* events-history.json against index.html                                  *)
(***************************************************************************)
\* the keys of the events index.html holds
WrittenKeys ==
    IF "index" \in disk.torn THEN {}
    ELSE {titleKey(html.events[j].title) : j \in 1..Len(html.events)}

\* C29: after any run of apply-analysis.js, whatever writes failed, every
\* title key of events-history.json belongs to an event present in
\* index.html: no key is recorded for an event that was not written, or
\* whose insertion restoreFile undid.
C29_HistoryOnlyOfWrittenEvents ==
    apc \in {"done", "failed"} => history \subseteq WrittenKeys

\* a run inserted an event and recorded its key, the write of step 8 failed
\* and restoreFile copied the backup made before the insertion: the run
\* ended with exit code 0, index.html whole and without the event, and the
\* key in events-history.json
C29_KeyOfUndoneInsertion ==
    /\ apc = "done" /\ applyExit = 0 /\ "index" \notin disk.torn
    /\ html = indexBackup
    /\ \E e \in insertedNow :
          /\ titleKey(e.title) \in history
          /\ titleKey(e.title) \notin WrittenKeys

(***************************************************************************)
(* A fetch cycle and apply-analysis.js over the same dashboard-data.json.  *)
(* The two are separate processes with no lock between them.  The runs of  *)
(* apply-analysis.js explored here are the ones that start before the      *)
(* cycle reads the file, or after it has read it and before its first      *)
(* adapter returns; the cycles explored are the ones in which no source    *)
(* fails.                                                                  *)
(***************************************************************************)
RaceDocument ==
    [BlankDocument EXCEPT !.scorecard_updates = ScorecardDraft,
                          !.kill_switch_updates = KillSwitchDraft,
                          !.prob = ProbDraft]

InitRaceSpec ==
    /\ file = PrevFull
    /\ InitFetch /\ ~env.FRED_API_KEY
    /\ InitApply
    /\ InitAgent /\ agentEnv.X402_MAINNET_SEED
    /\ InitRest
    /\ analysis = RaceDocument
    /\ html = NoPage

NextRace ==
    \/ Resting /\ NextFetch /\ NumFailed' = 0
    \/ /\ pc \in {"load", "xrp"}
       /\ ApplyStart \/ ApplyPatch \/ ApplyEvents \/ ApplyHtml \/ ApplyFinish

SpecRace == InitRaceSpec /\ [][NextRace]_vars

\* the last run of apply-analysis.js wrote its patch and ended, and the
\* fetch cycle has written the file since
AppliedThenFetched == Written /\ apc = "done" /\ applyExit = 0

\* the kill switches apply-analysis.js set, with a note
NotedSwitches ==
    {k \in KSKeys : dashboard.kill_switches[k].analysis_note \notin {Undef, Null}}

\* C30: what apply-analysis.js approved is not lost to a fetch cycle that
\* is running or that comes later: when the run wrote dashboard-data.json
\* after the cycle read it and before the cycle wrote it, its thesis_scores,
\* probability and last_analysis are in the file after the write of the
\* cycle; and a kill switch status it set, with its _analysis_note, is in
\* the file after the next cycle.
C30_EditorialSurvivesFetch ==
    AppliedThenFetched =>
        /\ file.thesis_scores = dashboard.thesis_scores
        /\ file.probability = dashboard.probability
        /\ file.last_analysis = dashboard.last_analysis
        /\ \A k \in NotedSwitches :
              /\ file.kill_switches[k].status = dashboard.kill_switches[k].status
              /\ file.kill_switches[k].analysis_note =
                     dashboard.kill_switches[k].analysis_note

\* the run read the file after the cycle had (its dashboard was patched from
\* the snapshot the cycle holds) and wrote it; the cycle then wrote the
\* snapshot's thesis_scores, probability and last_analysis over the
\* approved ones
C30_LostToRunningCycle ==
    /\ AppliedThenFetched /\ applyRuns = 1
    /\ existing = PrevFull
    /\ dashboard.thesis_scores["odl_volume"] = "STRONG"
    /\ file.thesis_scores = existing.thesis_scores
    /\ file.thesis_scores # dashboard.thesis_scores
    /\ file.probability # dashboard.probability
    /\ file.last_analysis # dashboard.last_analysis

\* the run ended before the cycle read the file: the cycle kept the
\* approved thesis_scores, probability and last_analysis and wrote the
\* kill switch without the approved status and note
C30_StatusLostToNextCycle ==
    /\ AppliedThenFetched /\ applyRuns = 1
    /\ existing.last_analysis = dashboard.last_analysis
    /\ file.thesis_scores = dashboard.thesis_scores
    /\ dashboard.kill_switches["xrp_etf_aum"].status = "HIT"
    /\ dashboard.kill_switches["xrp_etf_aum"].analysis_note = 1
    /\ file.kill_switches["xrp_etf_aum"].status # "HIT"
    /\ file.kill_switches["xrp_etf_aum"].analysis_note = Undef

====
